---------------------------- MODULE Spec2Model ----------------------------
(***************************************************************************)
(* Sims4 Mod Sorter (src/Sims4Modly.py): the move / collision / undo       *)
(* pipeline and the timestamp resolution it relies on.                     *)
(*                                                                         *)
(* The mods root is a finite map from paths to files.  A path is a         *)
(* top-level directory and a file name; a file name is the pair            *)
(* os.path.splitext gives (base, ext), both as sequences of characters, so *)
(* that the date regexes and the " (i)" suffixing work on real text.       *)
(* A file carries its identity (the path it had in the initial state), the *)
(* category classify_file gives it, and its timestamps.                    *)
(***************************************************************************)
EXTENDS Integers, Sequences, FiniteSets, TLC

VARIABLES
    fs,               \* disk: [path -> file] on the paths that exist
    log,              \* the move log file under the mods root
    items,            \* self.items, the planning table
    pc,               \* which handler / thread is running, and where
    plan,             \* on_complete: the included items being moved
    wi,               \* on_complete.worker: loop index i
    moves_log_all,    \* on_complete.worker: accumulated {from,to}
    collisions_total, \* on_complete.worker: accumulated collisions
    moved_total,      \* on_complete.worker: moved counter
    collision_plan,   \* self._collision_plan
    cj,               \* _col_apply: loop index
    moved_ops,        \* _col_apply: accumulated {from,to}
    undo_last,        \* undo_last_move: the popped batch (last)
    undo_data,        \* undo_last_move: the batches left (data)
    uk,               \* undo_last_move: loop index over reversed ops
    undone,           \* undo_last_move: counter
    undo_msg,         \* on_undo: msg, kept until another handler starts
    handlers,         \* number of handlers the user has started
    hist,             \* history of the run, read by the properties only
    file,             \* the file a classifier function is applied to
    cur,              \* classify_file: cur, the running (cat, conf, notes)
    step,             \* classify_file: position in the detector order
    calls,            \* the classifier calls made so far: fn, arg, res
    opts,             \* the scan options read from the settings
    walk,             \* scan_folder: files, as os.walk listed them
    si,               \* scan_folder: loop index i
    scan_out,         \* scan_folder: out, then on_scan.worker: items
    progress,         \* the calls _progress_update_ui received
    spc,              \* on_scan.worker: position
    threads,          \* the worker threads started and not yet ended
    afterq,           \* the callbacks queued with self.after(0, ...)
    tree,             \* the directories and files under the mods root
    dwalk,            \* purge_empty_dirs: what os.walk has yet to yield
    removed,          \* purge_empty_dirs: removed
    dpc,              \* purge_empty_dirs / normalise_top_level_folders: position
    dres,             \* the value the function returned
    dhist             \* the call's arguments, read by the properties only

vars == <<fs, log, items, pc, plan, wi, moves_log_all, collisions_total,
          moved_total, collision_plan, cj, moved_ops, undo_last, undo_data,
          uk, undone, undo_msg, handlers, hist,
          file, cur, step, calls, opts, walk, si, scan_out, progress, spc,
          threads, afterq, tree, dwalk, removed, dpc, dres, dhist>>

-----------------------------------------------------------------------------
(* Bounds *)

MaxFiles == 2      \* files in the initial mods root
MaxHandlers == 4   \* handlers the user starts per behaviour

-----------------------------------------------------------------------------
(* Program constants *)

COLLIDING_DIR_NAME == "Colliding Mods"

\* The folders of the six-slot model that the modelled categories route to.
TOP_SLOTS == {"CAS", "Gameplay"}

\* The root itself is "." ; the other directories are top-level folders.
Dirs == {".", "CAS", "Gameplay", COLLIDING_DIR_NAME}

\* dirname(relpath).lower() compared as strings
DirRank == [d \in Dirs |->
              CASE d = "." -> 0
                [] d = "CAS" -> 1
                [] d = COLLIDING_DIR_NAME -> 2
                [] d = "Gameplay" -> 3]

CATEGORY_ORDER == <<"Script Mod", "Gameplay Mods", "Gameplay Tuning",
                    "Adult - Gameplay", "Adult - CAS", "CAS Clothing",
                    "CAS Hair", "CAS Accessories", "Build/Buy", "Overrides",
                    "Animation", "Utilities", "Archive", "Other", "Unknown">>

\* The categories files of the model have.
Cats == {"CAS Hair", "Gameplay Mods"}

-----------------------------------------------------------------------------
(* Characters and names *)

Digits == <<"0", "1", "2", "3", "4", "5", "6", "7", "8", "9">>
DigitSet == {Digits[n] : n \in 1..10}
LowerLetters == {"a", "b", "c", "d", "e", "f", "g", "h", "i", "j", "k", "l",
                 "m", "n", "o", "p", "q", "r", "s", "t", "u", "v", "w", "x",
                 "y", "z"}

UpperLetters == <<"A", "B", "C", "D", "E", "F", "G", "H", "I", "J", "K", "L",
                  "M", "N", "O", "P", "Q", "R", "S", "T", "U", "V", "W", "X",
                  "Y", "Z">>
LowerOfUpper == <<"a", "b", "c", "d", "e", "f", "g", "h", "i", "j", "k", "l",
                  "m", "n", "o", "p", "q", "r", "s", "t", "u", "v", "w", "x",
                  "y", "z">>

\* str.lower() on the capital letters
LowerMap ==
    [c \in {UpperLetters[n] : n \in 1..Len(UpperLetters)} |->
        LowerOfUpper[CHOOSE n \in 1..Len(UpperLetters) : UpperLetters[n] = c]]

\* str.lower() on one character
LowerChar(c) == IF c \in DOMAIN LowerMap THEN LowerMap[c] ELSE c

Lower(s) == [n \in 1..Len(s) |-> LowerChar(s[n])]

\* The characters of the model in code-point order, for string comparison.
AsciiOrder == <<" ", "(", ")", "-", ".", "/",
                "0", "1", "2", "3", "4", "5", "6", "7", "8", "9",
                "A", "J", "M", "_",
                "a", "b", "c", "d", "e", "f", "g", "h", "i", "j", "k", "l",
                "m", "n", "o", "p", "q", "r", "s", "t", "u", "v", "w", "x",
                "y", "z">>

Ord(c) == CHOOSE n \in 1..Len(AsciiOrder) : AsciiOrder[n] = c

\* s < t as Python compares str
RECURSIVE StrLess(_, _)
StrLess(s, t) ==
    IF t = <<>> THEN FALSE
    ELSE IF s = <<>> THEN TRUE
    ELSE IF Ord(Head(s)) # Ord(Head(t)) THEN Ord(Head(s)) < Ord(Head(t))
    ELSE StrLess(Tail(s), Tail(t))

\* str(i) for a natural number
RECURSIVE IntChars(_)
IntChars(n) ==
    IF n < 10 THEN <<Digits[n + 1]>>
    ELSE IntChars(n \div 10) \o <<Digits[(n % 10) + 1]>>

\* int(s) for a string of digits
RECURSIVE IntOf(_)
IntOf(s) ==
    IF s = <<>> THEN 0
    ELSE 10 * IntOf(SubSeq(s, 1, Len(s) - 1))
         + (CHOOSE n \in 0..9 : Digits[n + 1] = s[Len(s)])

ExtPackage == <<".", "p", "a", "c", "k", "a", "g", "e">>

\* A file name as os.path.splitext returns it.
Name(base, ext) == [base |-> base, ext |-> ext]

\* os.path.basename(path) as text
NameText(nm) == nm.base \o nm.ext

\* os.path.join(dir, name)
Path(d, nm) == [dir |-> d, name |-> nm]

\* f"{base} ({i}){ext}"
Suffixed(nm, n) ==
    Name(nm.base \o <<" ", "(">> \o IntChars(n) \o <<")">>, nm.ext)

-----------------------------------------------------------------------------
(* Date parsing for collision decisions: _DATE_PATTERNS and                *)
(* _parse_date_from_name.  A pattern is a sequence of pieces, a piece an   *)
(* ordered sequence of alternatives, an alternative a sequence of          *)
(* character classes.  Matching is re's: leftmost start, alternatives      *)
(* tried in order, backtracking into earlier pieces on failure.            *)

SepClass == {".", "_", "-", " "}
D19 == {"1", "2", "3", "4", "5", "6", "7", "8", "9"}

\* (?P<y>20\d{2})
PieceYear == << <<{"2"}, {"0"}, DigitSet, DigitSet>> >>
\* (?P<m>0?[1-9]|1[0-2])
PieceMonth == << <<{"0"}, D19>>, <<D19>>, <<{"1"}, {"0", "1", "2"}>> >>
\* (?P<d>0?[1-9]|[12]\d|3[01])
PieceDay == << <<{"0"}, D19>>, <<D19>>, <<{"1", "2"}, DigitSet>>,
               <<{"3"}, {"0", "1"}>> >>
\* [._\- ]?  and  [\s._\-]?
PieceOptSep == << <<SepClass>>, <<>> >>
\* [._\- ]
PieceSep == << <<SepClass>> >>
\* (?P<mon>jan|feb|mar|apr|may|jun|jul|aug|sep|sept|oct|nov|dec)
PieceMon == << <<{"j"}, {"a"}, {"n"}>>, <<{"f"}, {"e"}, {"b"}>>,
               <<{"m"}, {"a"}, {"r"}>>, <<{"a"}, {"p"}, {"r"}>>,
               <<{"m"}, {"a"}, {"y"}>>, <<{"j"}, {"u"}, {"n"}>>,
               <<{"j"}, {"u"}, {"l"}>>, <<{"a"}, {"u"}, {"g"}>>,
               <<{"s"}, {"e"}, {"p"}>>, <<{"s"}, {"e"}, {"p"}, {"t"}>>,
               <<{"o"}, {"c"}, {"t"}>>, <<{"n"}, {"o"}, {"v"}>>,
               <<{"d"}, {"e"}, {"c"}>> >>
\* [a-z]* on a text of n characters: the longest run first
PieceLetters(n) == [q \in 1..(n + 1) |-> [r \in 1..(n + 1 - q) |-> LowerLetters]]

\* The four patterns with the position of their groups among the pieces.
_DATE_PATTERNS(n) ==
    << [pieces |-> <<PieceYear, PieceOptSep, PieceMonth, PieceOptSep, PieceDay>>,
        y |-> 1, m |-> 3, mon |-> 0, d |-> 5],
       [pieces |-> <<PieceDay, PieceSep, PieceMonth, PieceSep, PieceYear>>,
        y |-> 5, m |-> 3, mon |-> 0, d |-> 1],
       [pieces |-> <<PieceDay, PieceOptSep, PieceMon, PieceLetters(n),
                     PieceOptSep, PieceYear>>,
        y |-> 6, m |-> 0, mon |-> 3, d |-> 1],
       [pieces |-> <<PieceMon, PieceLetters(n), PieceOptSep, PieceDay,
                     PieceOptSep, PieceYear>>,
        y |-> 6, m |-> 0, mon |-> 1, d |-> 4] >>

NoMatch == [ok |-> FALSE, caps |-> <<>>]

\* Match pieces k.. of P at position pos of s, trying alternatives a.. of
\* piece k; the groups matched, piece by piece.
RECURSIVE ReMatch(_, _, _, _, _)
ReMatch(s, pos, P, k, a) ==
    IF k > Len(P) THEN [ok |-> TRUE, caps |-> <<>>]
    ELSE IF a > Len(P[k]) THEN NoMatch
    ELSE LET alt == P[k][a]
             n == Len(alt)
             fits == /\ pos + n - 1 <= Len(s)
                     /\ \A q \in 1..n : s[pos + q - 1] \in alt[q]
             rest == ReMatch(s, pos + n, P, k + 1, 1)
         IN  IF fits /\ rest.ok
             THEN [ok |-> TRUE,
                   caps |-> <<SubSeq(s, pos, pos + n - 1)>> \o rest.caps]
             ELSE ReMatch(s, pos, P, k, a + 1)

\* pat.search(s)
RECURSIVE ReSearch(_, _, _)
ReSearch(s, P, start) ==
    IF start > Len(s) + 1 THEN NoMatch
    ELSE LET r == ReMatch(s, start, P, 1, 1)
         IN  IF r.ok THEN r ELSE ReSearch(s, P, start + 1)

\* _MONTH.get(g["mon"][:3])
_MONTH(mon) ==
    LET m3 == SubSeq(mon, 1, 3)
    IN  CASE m3 = <<"j", "a", "n">> -> 1 [] m3 = <<"f", "e", "b">> -> 2
          [] m3 = <<"m", "a", "r">> -> 3 [] m3 = <<"a", "p", "r">> -> 4
          [] m3 = <<"m", "a", "y">> -> 5 [] m3 = <<"j", "u", "n">> -> 6
          [] m3 = <<"j", "u", "l">> -> 7 [] m3 = <<"a", "u", "g">> -> 8
          [] m3 = <<"s", "e", "p">> -> 9 [] m3 = <<"o", "c", "t">> -> 10
          [] m3 = <<"n", "o", "v">> -> 11 [] m3 = <<"d", "e", "c">> -> 12

DaysInMonth(y, m) ==
    IF m \in {4, 6, 9, 11} THEN 30
    ELSE IF m = 2 THEN (IF y % 4 = 0 /\ (y % 100 # 0 \/ y % 400 = 0) THEN 29 ELSE 28)
    ELSE 31

\* datetime.datetime(y, m, d, 12, 0, 0) raises unless the date exists
ValidDate(y, m, d) == m \in 1..12 /\ d >= 1 /\ d <= DaysInMonth(y, m)

\* datetime(y, m, d, 12, 0, 0).timestamp(), in days: an order-preserving
\* numbering of the calendar days from 2000 on (every month given 31 slots).
DateTs(y, m, d) == (y - 2000) * 372 + (m - 1) * 31 + d

\* The loop of _parse_date_from_name from pattern number n on; 0 is None.
RECURSIVE ParseFrom(_, _)
ParseFrom(s, n) ==
    IF n > Len(_DATE_PATTERNS(Len(s))) THEN 0
    ELSE LET pat == _DATE_PATTERNS(Len(s))[n]
             r == ReSearch(s, pat.pieces, 1)
             y == IntOf(r.caps[pat.y])
             mth == IF pat.mon # 0 THEN _MONTH(r.caps[pat.mon])
                    ELSE IntOf(r.caps[pat.m])
             d == IntOf(r.caps[pat.d])
         IN  IF ~r.ok THEN ParseFrom(s, n + 1)
             ELSE IF ValidDate(y, mth, d) THEN DateTs(y, mth, d)
             ELSE ParseFrom(s, n + 1)

_parse_date_from_name(nameText) == ParseFrom(Lower(nameText), 1)

-----------------------------------------------------------------------------
(* The disk *)

\* os.path.exists(p)
Exists(f, p) == p \in DOMAIN f

\* shutil.move(src, dst) of a file that exists, when it does not raise:
\* os.rename, or copy2 + unlink; a file already at dst is replaced.
ShutilMove(f, src, dst) ==
    [p \in (DOMAIN f \ {src}) \cup {dst} |-> IF p = dst THEN f[src] ELSE f[p]]

\* _unique_path(p): p, or p with the first free " (i)" suffix
RECURSIVE UniquePathLoop(_, _, _, _)
UniquePathLoop(f, p, out, n) ==
    IF Exists(f, out)
    THEN UniquePathLoop(f, p, Path(p.dir, Suffixed(p.name, n)), n + 1)
    ELSE out

_unique_path(f, p) == UniquePathLoop(f, p, p, 1)

\* _uniq_name_in(folder, name)
RECURSIVE UniqNameLoop(_, _, _, _, _)
UniqNameLoop(f, folder, nm, out, n) ==
    IF Exists(f, out)
    THEN UniqNameLoop(f, folder, nm, Path(folder, Suffixed(nm, n)), n + 1)
    ELSE out

_uniq_name_in(f, folder, nm) == UniqNameLoop(f, folder, nm, Path(folder, nm), 1)

-----------------------------------------------------------------------------
(* Timestamps and the collision plan *)

\* best_date_for_file(path): filename date, else newest zip entry, else the
\* later of mtime and ctime, else 0.0.  A timestamp of 0 stands for None
\* (the code tests truthiness); a path that does not exist has no times.
best_date_for_file(f, p) ==
    LET ts == _parse_date_from_name(NameText(p.name))
        z == IF Exists(f, p) THEN f[p].zip ELSE 0
        m == IF Exists(f, p) THEN f[p].mtime ELSE 0
        c == IF Exists(f, p) THEN f[p].ctime ELSE 0
    IN  IF ts # 0 THEN [ts |-> ts, how |-> "filename"]
        ELSE IF z # 0 THEN [ts |-> z, how |-> "zip"]
        ELSE IF m # 0 /\ c # 0
             THEN (IF m >= c THEN [ts |-> m, how |-> "mtime"]
                   ELSE [ts |-> c, how |-> "ctime"])
        ELSE IF m # 0 THEN [ts |-> m, how |-> "mtime"]
        ELSE IF c # 0 THEN [ts |-> c, how |-> "ctime"]
        ELSE [ts |-> 0, how |-> "unknown"]

\* A comparison without the tie-break: on equal timestamps the destination
\* is called older.
OlderSideNoTieBreak(s_ts, d_ts) ==
    IF s_ts < d_ts THEN "src" ELSE "dst"

\* The side plan_collisions calls older.
OlderSide(s_ts, d_ts) ==
    IF s_ts = d_ts THEN "src"
    ELSE IF s_ts < d_ts THEN "src" ELSE "dst"

\* plan_collisions(collisions)
plan_collisions(f, collisions) ==
    [n \in 1..Len(collisions) |->
        LET src == collisions[n].src
            dst == collisions[n].dst
            s_ts == best_date_for_file(f, src).ts
            d_ts == best_date_for_file(f, dst).ts
        IN  [src |-> src, dst |-> dst, src_ts |-> s_ts, dst_ts |-> d_ts,
             older |-> OlderSide(s_ts, d_ts), protect |-> TRUE]]

-----------------------------------------------------------------------------
(* Classification *)

\* sub in s, for two Python strings
Contains(sub, s) ==
    \E n \in 0..(Len(s) - Len(sub)) : SubSeq(s, n + 1, n + Len(sub)) = sub

\* s.endswith(suffix)
EndsWith(s, suffix) ==
    /\ Len(suffix) <= Len(s)
    /\ SubSeq(s, Len(s) - Len(suffix) + 1, Len(s)) = suffix

\* The category labels of the program, each with its characters.
CategoryLabels ==

    <<<<"Script Mod",
        <<"S", "c", "r", "i", "p", "t", " ", "M", "o", "d">>>>,
      <<"Gameplay Mods",
        <<"G", "a", "m", "e", "p", "l", "a", "y", " ", "M", "o", "d", "s">>>>,
      <<"Gameplay Tuning",
        <<"G", "a", "m", "e", "p", "l", "a", "y", " ", "T", "u", "n", "i", "n", "g">>>>,
      <<"Adult - Gameplay",
        <<"A", "d", "u", "l", "t", " ", "-", " ", "G", "a", "m", "e", "p", "l", "a", "y">>>>,
      <<"Adult - CAS",
        <<"A", "d", "u", "l", "t", " ", "-", " ", "C", "A", "S">>>>,
      <<"CAS Clothing",
        <<"C", "A", "S", " ", "C", "l", "o", "t", "h", "i", "n", "g">>>>,
      <<"CAS Hair",
        <<"C", "A", "S", " ", "H", "a", "i", "r">>>>,
      <<"CAS Accessories",
        <<"C", "A", "S", " ", "A", "c", "c", "e", "s", "s", "o", "r", "i", "e", "s">>>>,
      <<"Build/Buy",
        <<"B", "u", "i", "l", "d", "/", "B", "u", "y">>>>,
      <<"Overrides",
        <<"O", "v", "e", "r", "r", "i", "d", "e", "s">>>>,
      <<"Animation",
        <<"A", "n", "i", "m", "a", "t", "i", "o", "n">>>>,
      <<"Utilities",
        <<"U", "t", "i", "l", "i", "t", "i", "e", "s">>>>,
      <<"Archive",
        <<"A", "r", "c", "h", "i", "v", "e">>>>,
      <<"Other",
        <<"O", "t", "h", "e", "r">>>>,
      <<"Unknown",
        <<"U", "n", "k", "n", "o", "w", "n">>>>,
      <<"buildbuy object",
        <<"b", "u", "i", "l", "d", "b", "u", "y", " ", "o", "b", "j", "e", "c", "t">>>>,
      <<"cas eyes",
        <<"c", "a", "s", " ", "e", "y", "e", "s">>>>,
      <<"cas hair",
        <<"c", "a", "s", " ", "h", "a", "i", "r">>>>,
      <<"cas skin",
        <<"c", "a", "s", " ", "s", "k", "i", "n">>>>,
      <<"CAS Tattoos",
        <<"C", "A", "S", " ", "T", "a", "t", "t", "o", "o", "s">>>>,
      <<"cas tattoos",
        <<"c", "a", "s", " ", "t", "a", "t", "t", "o", "o", "s">>>>,
      <<"cas clothing",
        <<"c", "a", "s", " ", "c", "l", "o", "t", "h", "i", "n", "g">>>>,
      <<"script mod",
        <<"s", "c", "r", "i", "p", "t", " ", "m", "o", "d">>>>,
      <<"override",
        <<"o", "v", "e", "r", "r", "i", "d", "e">>>>>>

AllCats == {CategoryLabels[n][1] : n \in 1..Len(CategoryLabels)}

\* The characters of a category label
CatText(cat) ==
    CategoryLabels[CHOOSE n \in 1..Len(CategoryLabels) :
                       CategoryLabels[n][1] = cat][2]

\* _KEYWORDS, as the source lists it sorted by (keyword, category): the
\* entries of the table that the file names of the model can hit.
_KEYWORDS ==

    <<[kw |-> <<"a", "r", "t">>, cat |-> "buildbuy object"],
      [kw |-> <<"d", "e", "f", "a", "u", "l", "t", " ", "e", "y", "e", "s">>, cat |-> "override"],
      [kw |-> <<"e", "y", "e">>, cat |-> "cas eyes"],
      [kw |-> <<"e", "y", "e", "s">>, cat |-> "cas eyes"],
      [kw |-> <<"h", "a", "i", "r">>, cat |-> "cas hair"],
      [kw |-> <<"s", "c", "a", "r">>, cat |-> "cas skin"],
      [kw |-> <<"t", "a", "t", "t", "o", "o">>, cat |-> "CAS Tattoos"],
      [kw |-> <<"t", "a", "t", "t", "o", "o">>, cat |-> "cas skin"],
      [kw |-> <<"t", "a", "t", "t", "o", "o">>, cat |-> "cas tattoos"],
      [kw |-> <<"t", "o", "p">>, cat |-> "cas clothing"],
      [kw |-> <<"t", "s", "4", "s", "c", "r", "i", "p", "t">>, cat |-> "script mod"]>>

\* The sort key of _KW compared: (-len(kw), kw)
KwBefore(a, b) ==
    \/ Len(a.kw) > Len(b.kw)
    \/ Len(a.kw) = Len(b.kw) /\ StrLess(a.kw, b.kw)

\* sorted(seq, key=...) is stable: an entry goes after the entries that do
\* not come after it.
RECURSIVE SortedByKey(_)
SortedByKey(seq) ==
    IF seq = <<>> THEN <<>>
    ELSE LET rest == SortedByKey(SubSeq(seq, 1, Len(seq) - 1))
             last == seq[Len(seq)]
             keep == {n \in 1..Len(rest) : ~KwBefore(last, rest[n])}
             at == IF keep = {} THEN 0
                   ELSE CHOOSE n \in keep : \A m \in keep : m <= n
         IN  SubSeq(rest, 1, at) \o <<last>> \o SubSeq(rest, at + 1, Len(rest))

\* (k.lower().strip(), v) for (k, v) in _KEYWORDS
KeywordsAsListed == [n \in 1..Len(_KEYWORDS) |->
                        [_KEYWORDS[n] EXCEPT !.kw = Lower(_KEYWORDS[n].kw)]]

\* The table without the sort
KeywordsUnsorted == KeywordsAsListed

\* _KW = sorted(((k.lower().strip(), v) ...), key=(-len, k))
_KW == SortedByKey(KeywordsAsListed)

\* _CANON
_CANON ==

    <<[key |-> <<"a", "d", "u", "l", "t", " ", "g", "a", "m", "e", "p", "l", "a", "y">>,
       cat |-> "Adult - Gameplay"],
      [key |-> <<"a", "d", "u", "l", "t", " ", "a", "n", "i", "m", "a", "t", "i", "o", "n">>,
       cat |-> "Adult - Gameplay"],
      [key |-> <<"a", "d", "u", "l", "t", " ", "c", "a", "s">>,
       cat |-> "Adult - CAS"],
      [key |-> <<"a", "d", "u", "l", "t", " ", "b", "u", "i", "l", "d", "b", "u", "y">>,
       cat |-> "Build/Buy"],
      [key |-> <<"b", "u", "i", "l", "d", "b", "u", "y", " ", "o", "b", "j", "e", "c", "t">>,
       cat |-> "Build/Buy"],
      [key |-> <<"b", "u", "i", "l", "d", "b", "u", "y", " ", "r", "e", "c", "o", "l", "o", "u", "r">>,
       cat |-> "Build/Buy"],
      [key |-> <<"u", "t", "i", "l", "i", "t", "y", " ", "t", "o", "o", "l">>,
       cat |-> "Utilities"],
      [key |-> <<"c", "a", "s", " ", "m", "a", "k", "e", "u", "p">>,
       cat |-> "CAS Accessories"],
      [key |-> <<"c", "a", "s", " ", "e", "y", "e", "s">>,
       cat |-> "CAS Accessories"],
      [key |-> <<"c", "a", "s", " ", "t", "a", "t", "t", "o", "o", "s">>,
       cat |-> "CAS Accessories"],
      [key |-> <<"c", "a", "s", " ", "s", "k", "i", "n">>,
       cat |-> "CAS Accessories"]>>

\* _CANON.get(key, default)
CanonGet(key, default) ==
    IF \E n \in 1..Len(_CANON) : _CANON[n].key = key
    THEN _CANON[CHOOSE n \in 1..Len(_CANON) : _CANON[n].key = key].cat
    ELSE default

\* _canon(cat)
_canon(cat) == CanonGet(CatText(cat), cat)

ExtScript == <<".", "t", "s", "4", "s", "c", "r", "i", "p", "t">>
ExtZip == <<".", "z", "i", "p">>
ExtRar == <<".", "r", "a", "r">>
Ext7z == <<".", "7", "z">>

\* One note of a result: a text and the value formatted into it. Notes are
\* joined with "; ", so the notes of a result are a sequence of them.
Note(t, a) == [t |-> t, a |-> a]

\* A (category, confidence, notes) tuple; confidence in hundredths.
Result(cat, conf, notes) == [cat |-> cat, conf |-> conf, notes |-> notes]

\* guess_type_for_name with the keyword table consulted before the extension
guess_type_keywords_first(name, ext) ==
    LET n == Lower(name)
        hit == {k \in 1..Len(_KW) : _KW[k].kw # <<>> /\ Contains(_KW[k].kw, n)}
    IN  IF hit # {}
        THEN LET k == CHOOSE k \in hit : \A m \in hit : k <= m
             IN  Result(_canon(_KW[k].cat), 70, <<Note("Keyword: ", _KW[k].kw)>>)
        ELSE IF ext = ExtScript
        THEN Result("Script Mod", 95, <<Note("by extension", <<>>)>>)
        ELSE IF ext \in {ExtZip, ExtRar, Ext7z}
        THEN Result("Archive", 70, <<Note("archive", <<>>)>>)
        ELSE IF ext = ExtPackage
        THEN Result("Unknown", 40,
                    <<Note("Package with no keyword match", <<>>)>>)
        ELSE Result("Other", 60, <<Note("Unhandled ext ", ext)>>)

\* guess_type_for_name(name, ext)
guess_type_for_name(name, ext) ==
    LET n == Lower(name)
        hit == {k \in 1..Len(_KW) : _KW[k].kw # <<>> /\ Contains(_KW[k].kw, n)}
    IN  IF ext = ExtScript
        THEN Result("Script Mod", 95, <<Note("by extension", <<>>)>>)
        ELSE IF ext \in {ExtZip, ExtRar, Ext7z}
        THEN Result("Archive", 70, <<Note("archive", <<>>)>>)
        ELSE IF hit # {}
        THEN LET k == CHOOSE k \in hit : \A m \in hit : k <= m
             IN  Result(_canon(_KW[k].cat), 70, <<Note("Keyword: ", _KW[k].kw)>>)
        ELSE IF ext = ExtPackage
        THEN Result("Unknown", 40,
                    <<Note("Package with no keyword match", <<>>)>>)
        ELSE IF ext # <<>>
        THEN Result("Other", 60, <<Note("Unhandled ext ", ext)>>)
        ELSE Result("Other", 60, <<Note("No extension", <<>>)>>)

\* _FOLDER_HINTS, in the order of the dict
_FOLDER_HINTS ==

    <<[key |-> <<"m", "c", "c">>, tgt |-> "Script Mod"],
      [key |-> <<"u", "i", " ", "c", "h", "e", "a", "t", "s">>, tgt |-> "Script Mod"],
      [key |-> <<"s", "c", "r", "i", "p", "t">>, tgt |-> "Script Mod"],
      [key |-> <<"f", "r", "a", "m", "e", "w", "o", "r", "k">>, tgt |-> "Utilities"],
      [key |-> <<"u", "t", "i", "l", "i", "t", "y">>, tgt |-> "Utilities"],
      [key |-> <<"u", "t", "i", "l", "i", "t", "i", "e", "s">>, tgt |-> "Utilities"],
      [key |-> <<"c", "a", "s">>, tgt |-> "CAS Clothing"],
      [key |-> <<"c", "r", "e", "a", "t", "e", " ", "a", " ", "s", "i", "m">>, tgt |-> "CAS Clothing"],
      [key |-> <<"h", "a", "i", "r">>, tgt |-> "CAS Hair"],
      [key |-> <<"m", "a", "k", "e", "u", "p">>, tgt |-> "CAS Accessories"],
      [key |-> <<"e", "y", "e", "s">>, tgt |-> "CAS Accessories"],
      [key |-> <<"t", "a", "t", "t", "o", "o">>, tgt |-> "CAS Accessories"],
      [key |-> <<"a", "c", "c", "e", "s", "s", "o", "r">>, tgt |-> "CAS Accessories"],
      [key |-> <<"b", "u", "i", "l", "d">>, tgt |-> "Build/Buy"],
      [key |-> <<"b", "u", "y">>, tgt |-> "Build/Buy"],
      [key |-> <<"o", "v", "e", "r", "r", "i", "d", "e">>, tgt |-> "Overrides"],
      [key |-> <<"o", "v", "e", "r", "r", "i", "d", "e", "s">>, tgt |-> "Overrides"],
      [key |-> <<"a", "n", "i", "m", "a", "t", "i", "o", "n">>, tgt |-> "Animation"],
      [key |-> <<"a", "n", "i", "m", "a", "t", "i", "o", "n", "s">>, tgt |-> "Animation"],
      [key |-> <<"p", "o", "s", "e">>, tgt |-> "Animation"],
      [key |-> <<"p", "o", "s", "e", "s">>, tgt |-> "Animation"],
      [key |-> <<"g", "a", "m", "e", "p", "l", "a", "y">>, tgt |-> "Gameplay Mods"],
      [key |-> <<"t", "u", "n", "i", "n", "g">>, tgt |-> "Gameplay Tuning"]>>

\* The first hint of _FOLDER_HINTS whose key is in the directory name p,
\* "" when there is none
HintIn(p) ==
    LET hit == {k \in 1..Len(_FOLDER_HINTS) : Contains(_FOLDER_HINTS[k].key, p)}
    IN  IF hit = {} THEN ""
        ELSE _FOLDER_HINTS[CHOOSE k \in hit : \A m \in hit : k <= m].tgt

\* The loop over parts[::-1]: the hint of the nearest parent that has one
RECURSIVE NearestHint(_)
NearestHint(parts) ==
    IF parts = <<>> THEN ""
    ELSE IF HintIn(parts[Len(parts)]) # "" THEN HintIn(parts[Len(parts)])
    ELSE NearestHint(SubSeq(parts, 1, Len(parts) - 1))

\* _boost_from_parent_dirs(relpath, cur); dirs are the directories of
\* os.path.dirname(relpath), outermost first.
_boost_from_parent_dirs(dirs, c) ==
    LET parts == [n \in 1..Len(dirs) |-> Lower(dirs[n])]
        hint == NearestHint(parts)
    IN  IF c.conf >= 80 THEN c
        ELSE IF hint # "" /\ (c.cat = "Unknown" \/ c.conf < 75)
        THEN Result(CanonGet(Lower(CatText(hint)), hint), 75,
                    Append(c.notes, Note("parent hint: ", CatText(hint))))
        ELSE c

\* _RESOURCE_TYPE_HINTS
_RESOURCE_TYPE_HINTS ==
    <<[tid |-> "0x034AEECB", cat |-> "CAS Clothing", note |-> "DBPF: CASP"],
      [tid |-> "0x015A1849", cat |-> "CAS Clothing", note |-> "DBPF: GEOM"],
      [tid |-> "0x3453CF95", cat |-> "CAS Clothing", note |-> "DBPF: RLE2"],
      [tid |-> "0x00B2D882", cat |-> "CAS Clothing", note |-> "DBPF: RLE "],
      [tid |-> "0x319E4F1D", cat |-> "Build/Buy", note |-> "DBPF: OBJD"],
      [tid |-> "0x01D10F34", cat |-> "Build/Buy", note |-> "DBPF: MLOD"],
      [tid |-> "0x220557DA", cat |-> "Build/Buy", note |-> "DBPF: STBL"],
      [tid |-> "0x0333406C", cat |-> "Gameplay Tuning", note |-> "DBPF: XML"],
      [tid |-> "0xEBCF4E9B", cat |-> "Gameplay Tuning",
       note |-> "DBPF: SIMDATA"],
      [tid |-> "0xA0F3F4D4", cat |-> "Animation", note |-> "DBPF: CLIP"]>>

ResourceHint(tid) ==
    _RESOURCE_TYPE_HINTS[CHOOSE n \in 1..Len(_RESOURCE_TYPE_HINTS) :
                             _RESOURCE_TYPE_HINTS[n].tid = tid]

\* guess_type_binary: order, the preference among the type ids found
ProbeOrder == <<"0x034AEECB", "0x319E4F1D", "0x0333406C", "0xEBCF4E9B",
                "0xA0F3F4D4", "0x015A1849", "0x3453CF95", "0x00B2D882",
                "0x220557DA">>

\* guess_type_binary(path, current) on the file f: its name, whether it can
\* be opened, whether it starts with b"DBPF", and the type ids
\* _scan_for_types_dbpf finds in it.
guess_type_binary(f, current) ==
    LET found == {k \in 1..Len(ProbeOrder) : ProbeOrder[k] \in f.hits}
    IN  IF ~EndsWith(Lower(f.name), ExtPackage) THEN current
        ELSE IF f.broken \/ ~f.dbpf THEN current
        ELSE IF f.hits = {} THEN current
        ELSE IF found = {} THEN current
        ELSE LET best == ResourceHint(
                             ProbeOrder[CHOOSE k \in found :
                                            \A m \in found : k <= m])
                 floor == IF best.cat # current.cat THEN 85 ELSE 80
                 new_conf == IF current.conf >= floor THEN current.conf
                             ELSE floor
             IN  Result(best.cat, new_conf,
                        Append(current.notes, Note(best.note, <<>>)))

DEFAULT_DETECTOR_ORDER == <<"name", "binary", "ext">>

\* os.path.splitext(s): the extension starts at the last dot, unless only
\* dots come before it.
SplitExt(s) ==
    LET dots == {n \in 1..Len(s) : s[n] = "."}
        last == CHOOSE n \in dots : \A m \in dots : m <= n
    IN  IF dots # {} /\ \E n \in 1..(last - 1) : s[n] # "."
        THEN <<SubSeq(s, 1, last - 1), SubSeq(s, last, Len(s))>>
        ELSE <<s, <<>>>>

ExtOff == <<".", "o", "f", "f">>
ExtDisabled == <<".", "d", "i", "s", "a", "b", "l", "e", "d">>

\* detect_real_ext(name)
detect_real_ext(name) ==
    LET low == Lower(name)
        disabled == EndsWith(low, ExtOff) \/ EndsWith(low, ExtDisabled)
        base == IF EndsWith(low, ExtOff)
                THEN SubSeq(low, 1, Len(low) - Len(ExtOff))
                ELSE IF EndsWith(low, ExtDisabled)
                THEN SubSeq(low, 1, Len(low) - Len(ExtDisabled))
                ELSE low
    IN  [ext |-> SplitExt(base)[2], disabled |-> disabled]

\* _DETECTOR_FUNCS[stage](path, name, ext, cur)
_DETECTOR_FUNCS(stage, f, ext, c) ==
    IF stage = "binary" THEN guess_type_binary(f, c)
    ELSE guess_type_for_name(f.name, ext)

\* The merge taking every stage's result, whatever its confidence
MergedAlways(c, res) == Result(res.cat, res.conf, c.notes \o res.notes)

\* classify_file: the merge of a stage's result into cur
Merged(c, res) ==
    IF res.conf >= c.conf
    THEN Result(res.cat, res.conf, c.notes \o res.notes)
    ELSE c

\* classify_file: one turn of the loop over order
ClassifyStage(stage, f, ext, enable_binary, c) ==
    IF stage = "binary" /\ ~enable_binary THEN c
    ELSE IF stage \notin {"name", "binary", "ext"} THEN c
    ELSE Merged(c, _DETECTOR_FUNCS(stage, f, ext, c))

StartResult == Result("Unknown", 0, <<>>)

RECURSIVE ClassifyFrom(_, _, _, _, _)
ClassifyFrom(order, f, ext, enable_binary, c) ==
    IF order = <<>> THEN c
    ELSE ClassifyFrom(Tail(order), f, ext, enable_binary,
                      ClassifyStage(Head(order), f, ext, enable_binary, c))

\* classify_file(path, name, ext, order, enable_binary)
classify_file(f, ext, order, enable_binary) ==
    ClassifyFrom(IF order = <<>> THEN DEFAULT_DETECTOR_ORDER ELSE order,
                 f, ext, enable_binary, StartResult)

-----------------------------------------------------------------------------
(* Scan *)

\* route_slot_for_category(cat)
route_slot_for_category(cat) ==
    LET c == Lower(CatText(cat))
    IN  IF Contains(<<"u", "i", " ", "c", "h", "e", "a", "t">>, c)
        THEN "UI Cheats"
        ELSE IF \/ Contains(<<"c", "a", "s">>, c)
                \/ Contains(<<"a", "d", "u", "l", "t", " ", "-", " ", "c", "a", "s">>, c)
                \/ Contains(<<"m", "a", "k", "e", "u", "p">>, c)
                \/ Contains(<<"e", "y", "e", "s">>, c)
                \/ Contains(<<"s", "k", "i", "n">>, c)
                \/ Contains(<<"t", "a", "t", "t", "o", "o">>, c)
                \/ Contains(<<"h", "a", "i", "r">>, c)
                \/ Contains(<<"a", "c", "c", "e", "s", "s", "o", "r">>, c)
        THEN "CAS"
        ELSE IF \/ Contains(<<"b", "u", "i", "l", "d", "/", "b", "u", "y">>, c)
                \/ Contains(<<"b", "u", "i", "l", "d", " ", "b", "u", "y">>, c)
                \/ Contains(<<"b", "u", "i", "l", "d">>, c)
                \/ Contains(<<"r", "e", "c", "o", "l", "o", "u", "r">>, c)
                \/ Contains(<<"r", "e", "c", "o", "l", "o", "r">>, c)
                \/ Contains(<<"o", "b", "j", "e", "c", "t">>, c)
        THEN "Build Mode"
        ELSE IF \/ Contains(<<"a", "n", "i", "m", "a", "t", "i", "o", "n">>, c)
                \/ Contains(<<"p", "o", "s", "e">>, c)
        THEN "Animations"
        ELSE IF \/ Contains(<<"s", "c", "r", "i", "p", "t">>, c)
                \/ Contains(<<"u", "t", "i", "l", "i", "t", "y">>, c)
                \/ Contains(<<"f", "r", "a", "m", "e", "w", "o", "r", "k">>, c)
                \/ Contains(<<"l", "i", "b", "r", "a", "r", "y">>, c)
        THEN "MCC"
        ELSE "Gameplay"

\* self.folder_slots with its defaults: each slot's folder has its name.
folder_slots(slot) == slot

\* route_slot_for_category on each category label, worked out once
SlotOf == [cat \in AllCats |-> route_slot_for_category(cat)]

\* map_type_to_folder(cat, folder_map, folder_slots) with folder_slots given
map_type_to_folder(cat) == folder_slots(SlotOf[cat])

\* DEFAULT_FOLDER_MAP
DEFAULT_FOLDER_MAP ==
    <<[cat |-> "Script Mod", folder |-> "Script Mods"],
      [cat |-> "Gameplay Mods", folder |-> "Gameplay Mods"],
      [cat |-> "Gameplay Tuning", folder |-> "Gameplay Tuning"],
      [cat |-> "Adult - Gameplay", folder |-> "Adult - Gameplay"],
      [cat |-> "Adult - CAS", folder |-> "Adult - CAS"],
      [cat |-> "CAS Clothing", folder |-> "CAS Clothing"],
      [cat |-> "CAS Hair", folder |-> "CAS Hair"],
      [cat |-> "CAS Accessories", folder |-> "CAS Accessories"],
      [cat |-> "Build/Buy", folder |-> "Build Buy"],
      [cat |-> "Overrides", folder |-> "Overrides"],
      [cat |-> "Animation", folder |-> "Animations"],
      [cat |-> "Utilities", folder |-> "Utilities"],
      [cat |-> "Archive", folder |-> "Archives"],
      [cat |-> "Other", folder |-> "Other"],
      [cat |-> "Unknown", folder |-> "Unsorted"]>>

FolderMapKeys == {DEFAULT_FOLDER_MAP[n].cat : n \in 1..Len(DEFAULT_FOLDER_MAP)}

\* folder_map.get(cat, default)
FolderMapGet(cat, default) ==
    IF cat \in FolderMapKeys
    THEN DEFAULT_FOLDER_MAP[CHOOSE n \in 1..Len(DEFAULT_FOLDER_MAP) :
                                DEFAULT_FOLDER_MAP[n].cat = cat].folder
    ELSE default

\* map_type_to_folder(cat, folder_map, folder_slots) with no folder_slots:
\* the legacy path
map_type_to_folder_legacy(cat) ==
    FolderMapGet(cat, FolderMapGet("Gameplay Mods", "Gameplay"))

CategoryIndex(cat) ==
    IF \E n \in 1..Len(CATEGORY_ORDER) : CATEGORY_ORDER[n] = cat
    THEN (CHOOSE n \in 1..Len(CATEGORY_ORDER) : CATEGORY_ORDER[n] = cat) - 1
    ELSE 999

\* The sort key of scan_folder compared: category position, then parent
\* directory, then file name, the last two lowercased.
ItemLess(a, b) ==
    LET ca == CategoryIndex(a.guess_type)
        cb == CategoryIndex(b.guess_type)
        da == DirRank[a.path.dir]
        db == DirRank[b.path.dir]
    IN  IF ca # cb THEN ca < cb
        ELSE IF da # db THEN da < db
        ELSE StrLess(Lower(NameText(a.name)), Lower(NameText(b.name)))

\* The FileItem scan_folder builds for the file at p.
FileItem(f, p) ==
    [path |-> p, name |-> p.name, guess_type |-> f[p].cat, include |-> TRUE,
     target_folder |-> map_type_to_folder(f[p].cat)]

RECURSIVE SortItems(_)
SortItems(S) ==
    IF S = {} THEN <<>>
    ELSE LET first == CHOOSE x \in S : \A y \in S \ {x} : ItemLess(x, y)
         IN  <<first>> \o SortItems(S \ {first})

\* scan_folder(root, ...): every file under the root, sorted
scan_folder(f) == SortItems({FileItem(f, p) : p \in DOMAIN f})

-----------------------------------------------------------------------------
(* Move executor and log *)

\* perform_moves without its test of the destination
DestTakenNever(f, dest) == FALSE

\* os.path.exists(dest) in perform_moves
DestTaken(f, dest) == Exists(f, dest)

\* perform_moves(items, mods_root) from item n on.  faults: the positions
\* at which shutil.move raises; it also raises when the source is gone.
\* An exception leaves the function at once (raised), nothing is returned.
RECURSIVE PerformFrom(_, _, _, _)
PerformFrom(its, n, acc, faults) ==
    IF n > Len(its) THEN acc
    ELSE LET it == its[n]
             dest0 == Path(it.target_folder, it.name)
             dest == _unique_path(acc.fs, dest0)
         IN  IF ~it.include
             THEN PerformFrom(its, n + 1, [acc EXCEPT !.skipped = @ + 1], faults)
             ELSE IF DestTaken(acc.fs, dest0)
             THEN PerformFrom(its, n + 1,
                     [acc EXCEPT !.collisions =
                         Append(@, [src |-> it.path, dst |-> dest0])], faults)
             ELSE IF n \in faults \/ ~Exists(acc.fs, it.path)
             THEN [acc EXCEPT !.raised = TRUE]
             ELSE PerformFrom(its, n + 1,
                     [acc EXCEPT !.fs = ShutilMove(@, it.path, dest),
                                 !.logs = Append(@, [from |-> it.path, to |-> dest]),
                                 !.moved = @ + 1], faults)

perform_moves(its, f, faults) ==
    PerformFrom(its, 1, [fs |-> f, moved |-> 0, skipped |-> 0,
                         collisions |-> <<>>, logs |-> <<>>, raised |-> FALSE],
                faults)

NoLog == [exists |-> FALSE, data |-> <<>>]

\* A log that puts the new batch ahead of the batches it holds.
save_moves_log_first(lg, logs) ==
    IF logs = <<>> THEN lg
    ELSE [exists |-> TRUE,
          data |-> <<[ops |-> logs]>> \o (IF lg.exists THEN lg.data ELSE <<>>)]

\* save_moves_log(mods_root, logs): the log file afterwards
save_moves_log(lg, logs) ==
    IF logs = <<>> THEN lg
    ELSE [exists |-> TRUE,
          data |-> Append(IF lg.exists THEN lg.data ELSE <<>>, [ops |-> logs])]

\* The entries visited first to last, as a loop without reversed() would
ForwardIndex(n, k) == k

\* reversed(last["ops"]): the entry visited at turn k of n
ReversedIndex(n, k) == n - k + 1

\* data after data.pop(0)
PopFirst(data) == SubSeq(data, 2, Len(data))

\* data after data.pop()
PopLast(data) == SubSeq(data, 1, Len(data) - 1)

-----------------------------------------------------------------------------
(* Flatten and clean *)

\* flatten_and_clean_mods_root: the files met in the order os.walk gives,
\* each promoted into the folder of its category's slot unless it is there
\* already or the name is taken.  failAt: the position whose shutil.move
\* raises (0: none); the exception ends the pass.
RECURSIVE FlattenFrom(_, _, _, _)
FlattenFrom(f, order, n, failAt) ==
    IF n > Len(order) THEN [fs |-> f, raised |-> FALSE]
    ELSE LET src == order[n]
             tgt_dir == IF Exists(f, src)
                        THEN folder_slots(route_slot_for_category(f[src].cat))
                        ELSE src.dir
             dst == Path(tgt_dir, src.name)
         IN  IF ~Exists(f, src) \/ src.dir = tgt_dir
             THEN FlattenFrom(f, order, n + 1, failAt)
             ELSE IF Exists(f, dst) THEN FlattenFrom(f, order, n + 1, failAt)
             ELSE IF n = failAt THEN [fs |-> f, raised |-> TRUE]
             ELSE FlattenFrom(ShutilMove(f, src, _unique_path(f, dst)),
                              order, n + 1, failAt)

flatten_and_clean_mods_root(f, order, failAt) == FlattenFrom(f, order, 1, failAt)

\* on_clean_folders(auto): the flatten pass, then purge_empty_dirs, then the
\* summary line, which reads keys the flatten summary does not have: the
\* handler always ends in an exception and its closing on_scan never runs.
on_clean_folders(f, order, failAt) ==
    [fs |-> flatten_and_clean_mods_root(f, order, failAt).fs, raised |-> TRUE]

\* The orders in which os.walk(topdown=False) can meet the files of f: one
\* directory after the other, the root's own files last.
RECURSIVE Orders(_)
Orders(S) ==
    IF S = {} THEN {<<>>}
    ELSE UNION {{<<p>> \o o : o \in Orders(S \ {p})} : p \in S}

WalkOrders(f) ==
    {o \in Orders(DOMAIN f) :
        /\ \A a, b, c \in 1..Len(o) :
              (a < b /\ b < c /\ o[a].dir = o[c].dir) => o[b].dir = o[a].dir
        /\ \A a, b \in 1..Len(o) : (a < b /\ o[a].dir = ".") => o[b].dir = "."}

-----------------------------------------------------------------------------
(* History, for the properties only: the disk when the current batch       *)
(* started (kept while nothing else has touched the disk since), the disk  *)
(* when the collision plan was made, and the relocations the running       *)
(* handler has made so far.                                                *)

\* The relocations between two disks: a file at p before and at q after.
Relocated(f, g) ==
    {[from |-> pq[1], to |-> pq[2]] : pq \in
        {xy \in (DOMAIN f) \X (DOMAIN g) :
            f[xy[1]].orig = g[xy[2]].orig /\ xy[1] # xy[2]}}

\* lifo: every relocation since the start was logged and no undo turn
\* failed; undos: the undos that have ended since the last batch was logged.
NoHist == [op |-> "start", single |-> FALSE, start_fs |-> <<>>,
           col_fs |-> <<>>, phys |-> {}, lifo |-> TRUE, undos |-> 0]

\* The history of the batch dropped, the flags of the whole run kept.
Forget(h) == [NoHist EXCEPT !.lifo = h.lifo, !.undos = h.undos]

\* The history once a relocation was left out of the log, or an undo turn
\* failed.
Unlogged(h) == [NoHist EXCEPT !.lifo = FALSE]

\* The history when a batch of these entries has been handed to
\* save_moves_log.
Logged(h, logs) == IF logs = <<>> THEN h ELSE [h EXCEPT !.undos = 0]

\* The disk with every file back at the path it had at the start.
OrigDisk(f) ==
    [q \in {f[p].orig : p \in DOMAIN f} |->
        f[CHOOSE p \in DOMAIN f : f[p].orig = q]]

\* All entries of the batches of a log, oldest first.
RECURSIVE AllOps(_)
AllOps(data) ==
    IF data = <<>> THEN <<>>
    ELSE AllOps(PopLast(data)) \o data[Len(data)].ops

\* The disk after the moves of these entries, made in order on f.
RECURSIVE Replay(_, _)
Replay(f, ops) ==
    IF ops = <<>> THEN f
    ELSE IF ~Exists(f, Head(ops).from) THEN Replay(f, Tail(ops))
    ELSE Replay(ShutilMove(f, Head(ops).from, Head(ops).to), Tail(ops))

\* The history once something other than the batch and its undo has acted.
Disturbed(h) == [h EXCEPT !.single = FALSE, !.start_fs = <<>>]

\* The history when a handler ends: kept for an undisturbed single batch.
Settled(h, op) ==
    IF h.single THEN [h EXCEPT !.op = op, !.col_fs = <<>>] ELSE Forget(h)

-----------------------------------------------------------------------------
(* Initial states *)

\* mtime and ctime values, on the scale of DateTs
TimeEarly == DateTs(2022, 6, 1)
TimeLate == DateTs(2024, 6, 1)

PlainName == Name(<<"x">>, ExtPackage)

\* The quarantine folder is created on demand and starts out empty.
InitPaths == {Path(d, PlainName) : d \in Dirs \ {COLLIDING_DIR_NAME}}

InitAttrs == {[cat |-> c, mtime |-> t, ctime |-> t, zip |-> 0] :
                 c \in Cats, t \in {TimeEarly, TimeLate}}

NewFile(p, at) ==
    [orig |-> p, cat |-> at.cat, mtime |-> at.mtime, ctime |-> at.ctime,
     zip |-> at.zip]

NoMsg == [text |-> "none", n |-> 0]

\* No scan is running and no classifier function has been called.
\* Neither purge_empty_dirs nor normalise_top_level_folders has been called.
DirsAtRest ==
    /\ tree = <<>>
    /\ dwalk = <<>>
    /\ removed = 0
    /\ dpc = "none"
    /\ dres = <<>>
    /\ dhist = <<>>

ClassifierAtRest ==
    /\ DirsAtRest
    /\ threads = <<>>
    /\ afterq = <<>>
    /\ file = <<>>
    /\ cur = <<>>
    /\ step = 0
    /\ calls = <<>>
    /\ opts = <<>>
    /\ walk = <<>>
    /\ si = 0
    /\ scan_out = <<>>
    /\ progress = <<>>
    /\ spc = "none"

InitRest ==
    /\ log = NoLog
    /\ items = <<>>
    /\ plan = <<>>
    /\ wi = 1
    /\ moves_log_all = <<>>
    /\ collisions_total = <<>>
    /\ moved_total = 0
    /\ collision_plan = <<>>
    /\ cj = 1
    /\ moved_ops = <<>>
    /\ undo_last = <<>>
    /\ undo_data = <<>>
    /\ uk = 1
    /\ undone = 0
    /\ undo_msg = NoMsg
    /\ handlers = 0
    /\ hist = NoHist

\* A mods root with up to MaxFiles files, the application just started.
Init ==
    /\ \E S \in SUBSET InitPaths :
          /\ Cardinality(S) \in 1..MaxFiles
          /\ \E at \in [S -> InitAttrs] : fs = [p \in S |-> NewFile(p, at[p])]
    /\ pc = "idle"
    /\ InitRest
    /\ ClassifierAtRest

-----------------------------------------------------------------------------
(* The handlers.  One handler runs at a time (pc = "idle" between them);   *)
(* the locals of a handler are reset when it ends.                         *)

\* The state of the scan worker and of the classifier functions.
\* The worker threads and the callbacks they have queued.
ThreadVars == <<threads, afterq>>

\* The state of purge_empty_dirs and normalise_top_level_folders.
DirVars == <<tree, dwalk, removed, dpc, dres, dhist>>

ClassifierVars == <<file, cur, step, calls, opts, walk, si, scan_out,
                    progress, spc, ThreadVars, DirVars>>

\* The state of the handlers that move files.
AppVars == <<fs, log, items, pc, plan, wi, moves_log_all, collisions_total,
             moved_total, collision_plan, cj, moved_ops, undo_last,
             undo_data, uk, undone, undo_msg, handlers, hist>>

WorkerVars == <<plan, wi, moves_log_all, collisions_total, moved_total>>
ColVars == <<collision_plan, cj, moved_ops>>
UndoVars == <<undo_last, undo_data, uk, undone, undo_msg>>

WorkerReset ==
    /\ plan' = <<>>
    /\ wi' = 1
    /\ moves_log_all' = <<>>
    /\ collisions_total' = <<>>
    /\ moved_total' = 0

\* on_scan: rescan the mods root into self.items
OnScan ==
    /\ pc = "idle"
    /\ handlers < MaxHandlers
    /\ handlers' = handlers + 1
    /\ items' = scan_folder(fs)
    /\ undo_msg' = NoMsg
    /\ UNCHANGED <<fs, log, pc, WorkerVars, ColVars, undo_last, undo_data, uk,
                   undone, hist>>
    /\ UNCHANGED ClassifierVars

\* on_toggle_include on row n
OnToggleInclude(n) ==
    /\ pc = "idle"
    /\ handlers < MaxHandlers
    /\ handlers' = handlers + 1
    /\ n \in 1..Len(items)
    /\ items' = [items EXCEPT ![n].include = ~@]
    /\ undo_msg' = NoMsg
    /\ UNCHANGED <<fs, log, pc, WorkerVars, ColVars, undo_last, undo_data, uk,
                   undone, hist>>
    /\ UNCHANGED ClassifierVars

\* on_apply_selected on row n with a target folder chosen in target_cb
OnApplySelected(n, tgt) ==
    /\ pc = "idle"
    /\ handlers < MaxHandlers
    /\ handlers' = handlers + 1
    /\ n \in 1..Len(items)
    /\ items[n].target_folder # tgt
    /\ items' = [items EXCEPT ![n].target_folder = tgt]
    /\ undo_msg' = NoMsg
    /\ UNCHANGED <<fs, log, pc, WorkerVars, ColVars, undo_last, undo_data, uk,
                   undone, hist>>
    /\ UNCHANGED ClassifierVars

\* on_complete up to the start of the worker thread
OnComplete ==
    /\ pc = "idle"
    /\ handlers < MaxHandlers
    /\ handlers' = handlers + 1
    /\ items # <<>>
    /\ SelectSeq(items, LAMBDA it : it.include) # <<>>
    /\ plan' = SelectSeq(items, LAMBDA it : it.include)
    /\ wi' = 1
    /\ moves_log_all' = <<>>
    /\ collisions_total' = <<>>
    /\ moved_total' = 0
    /\ pc' = "worker"
    /\ hist' = IF log.data = <<>>
               THEN [Forget(hist) EXCEPT !.op = "running", !.single = TRUE,
                                         !.start_fs = fs]
               ELSE [Forget(hist) EXCEPT !.op = "running"]
    /\ undo_msg' = NoMsg
    /\ UNCHANGED <<fs, log, items, ColVars, undo_last, undo_data, uk, undone>>
    /\ UNCHANGED ClassifierVars

\* on_complete.worker: one turn of the loop, perform_moves([it], mods).
\* An exception out of perform_moves ends the thread: nothing is saved and
\* ui_done is never scheduled.
WorkerStep(fault) ==
    /\ pc = "worker"
    /\ wi <= Len(plan)
    /\ LET r == perform_moves(<<plan[wi]>>, fs, IF fault THEN {1} ELSE {})
       IN  /\ fs' = r.fs
           /\ IF r.raised
              THEN /\ pc' = "idle"
                   /\ hist' = IF moves_log_all = <<>> /\ r.fs = fs
                              THEN Forget(hist) ELSE Unlogged(hist)
                   /\ WorkerReset
              ELSE /\ pc' = pc
                   /\ wi' = wi + 1
                   /\ moved_total' = moved_total + r.moved
                   /\ collisions_total' = collisions_total \o r.collisions
                   /\ moves_log_all' = moves_log_all \o r.logs
                   /\ hist' = [hist EXCEPT !.phys = @ \cup Relocated(fs, r.fs)]
                   /\ UNCHANGED plan
    /\ UNCHANGED <<log, items, ColVars, UndoVars, handlers>>
    /\ UNCHANGED ClassifierVars

\* on_complete.worker after the loop: save_moves_log, then ui_done is queued
WorkerSave ==
    /\ pc = "worker"
    /\ wi > Len(plan)
    /\ log' = save_moves_log(log, moves_log_all)
    /\ pc' = "ui_done"
    /\ hist' = Logged([hist EXCEPT !.phys = {}], moves_log_all)
    /\ UNCHANGED <<fs, items, WorkerVars, ColVars, UndoVars, handlers>>
    /\ UNCHANGED ClassifierVars

\* ui_done with collisions: plan them and show the review overlay
UiDoneCollisions ==
    /\ pc = "ui_done"
    /\ collisions_total # <<>>
    /\ collision_plan' = plan_collisions(fs, collisions_total)
    /\ cj' = 1
    /\ moved_ops' = <<>>
    /\ pc' = "overlay"
    /\ hist' = [hist EXCEPT !.op = "overlay", !.col_fs = fs]
    /\ WorkerReset
    /\ UNCHANGED <<fs, log, items, UndoVars, handlers>>
    /\ UNCHANGED ClassifierVars

\* ui_done without collisions: on_clean_folders(auto=True), whose exception
\* ends the callback before on_scan
UiDoneClean ==
    /\ pc = "ui_done"
    /\ collisions_total = <<>>
    /\ \E order \in WalkOrders(fs), failAt \in 0..Cardinality(DOMAIN fs) :
          fs' = on_clean_folders(fs, order, failAt).fs
    /\ pc' = "idle"
    /\ hist' = IF fs' = fs THEN Settled(hist, "batch_done")
               ELSE Unlogged(hist)
    /\ WorkerReset
    /\ UNCHANGED <<log, items, ColVars, UndoVars, handlers>>
    /\ UNCHANGED ClassifierVars

\* _col_protect_selected (b = TRUE) / _col_unprotect_selected on row n
ColSetProtect(n, b) ==
    /\ pc = "overlay"
    /\ handlers < MaxHandlers
    /\ handlers' = handlers + 1
    /\ n \in 1..Len(collision_plan)
    /\ collision_plan[n].protect # b
    /\ collision_plan' = [collision_plan EXCEPT ![n].protect = b]
    /\ UNCHANGED <<fs, log, items, pc, WorkerVars, cj, moved_ops, UndoVars,
                   hist>>
    /\ UNCHANGED ClassifierVars

\* Cancel in the overlay: _toggle_collision(False).  The hidden plan is
\* never read again (the next overlay replaces it) and is dropped here.
ColCancel ==
    /\ pc = "overlay"
    /\ handlers < MaxHandlers
    /\ handlers' = handlers + 1
    /\ pc' = "idle"
    /\ collision_plan' = <<>>
    /\ hist' = Settled(hist, "batch_done")
    /\ UNCHANGED <<fs, log, items, WorkerVars, cj, moved_ops, UndoVars>>
    /\ UNCHANGED ClassifierVars

\* What one turn of the loop of _col_apply does to the disk and to
\* moved_ops for the case p.  fault1, fault2: the quarantine move, the
\* move into the destination, raises; the except clause then ends the turn.
ColResolve(f, ops, p, fault1, fault2) ==
    LET older_path == IF p.older = "src" THEN p.src ELSE p.dst
        newer_path == IF p.older = "src" THEN p.dst ELSE p.src
        quarantine == _uniq_name_in(f, COLLIDING_DIR_NAME, older_path.name)
        moveOlder == Exists(f, older_path)
        f1 == IF moveOlder THEN ShutilMove(f, older_path, quarantine) ELSE f
        ops1 == IF moveOlder
                THEN Append(ops, [from |-> older_path, to |-> quarantine])
                ELSE ops
        final_dst == IF Exists(f1, p.dst)
                     THEN _uniq_name_in(f1, p.dst.dir, p.dst.name)
                     ELSE p.dst
    IN  IF older_path = newer_path THEN [fs |-> f, ops |-> ops]
        ELSE IF moveOlder /\ fault1 THEN [fs |-> f, ops |-> ops]
        ELSE IF p.older = "dst" /\ Exists(f1, p.src)
        THEN (IF fault2 THEN [fs |-> f1, ops |-> ops1]
              ELSE [fs |-> ShutilMove(f1, p.src, final_dst),
                    ops |-> Append(ops1, [from |-> p.src, to |-> final_dst])])
        ELSE [fs |-> f1, ops |-> ops1]

\* _col_apply: one turn of the loop over the plan
ColApplyCase(fault1, fault2) ==
    /\ pc \in {"overlay", "col_apply"}
    /\ cj <= Len(collision_plan)
    /\ LET r == ColResolve(fs, moved_ops, collision_plan[cj], fault1, fault2)
       IN  /\ fs' = r.fs
           /\ moved_ops' = r.ops
           /\ hist' = [Disturbed(hist) EXCEPT
                          !.op = "resolving",
                          !.phys = @ \cup Relocated(fs, r.fs)]
    /\ cj' = cj + 1
    /\ pc' = "col_apply"
    /\ IF pc = "overlay"
       THEN handlers < MaxHandlers /\ handlers' = handlers + 1
       ELSE handlers' = handlers
    /\ UNCHANGED <<log, items, WorkerVars, collision_plan, UndoVars>>
    /\ UNCHANGED ClassifierVars

\* _col_apply after the loop: save_moves_log, hide the overlay, then
\* on_clean_folders(auto=True) and, on its exception, on_scan
ColApplyFinish ==
    /\ pc = "col_apply"
    /\ cj > Len(collision_plan)
    /\ log' = save_moves_log(log, moved_ops)
    /\ \E order \in WalkOrders(fs), failAt \in 0..Cardinality(DOMAIN fs) :
          fs' = on_clean_folders(fs, order, failAt).fs
    /\ items' = scan_folder(fs')
    /\ pc' = "idle"
    /\ collision_plan' = <<>>
    /\ cj' = 1
    /\ moved_ops' = <<>>
    /\ hist' = IF fs' = fs THEN Logged(Forget(hist), moved_ops)
               ELSE Unlogged(hist)
    /\ UNCHANGED <<WorkerVars, UndoVars, handlers>>
    /\ UNCHANGED ClassifierVars

\* on_undo, undo_last_move with no log file or an empty log: return at
\* once; on_undo then rescans
UndoNothing ==
    /\ pc = "idle"
    /\ handlers < MaxHandlers
    /\ handlers' = handlers + 1
    /\ ~log.exists \/ log.data = <<>>
    /\ undo_msg' = [text |-> IF ~log.exists THEN "No move log found."
                             ELSE "Move log empty.", n |-> 0]
    /\ items' = scan_folder(fs)
    /\ hist' = Settled(hist, "undo")
    /\ UNCHANGED <<fs, log, pc, WorkerVars, ColVars, undo_last, undo_data, uk,
                   undone>>
    /\ UNCHANGED ClassifierVars

\* on_undo, undo_last_move up to the loop: read the log, pop the last batch
UndoBegin ==
    /\ pc = "idle"
    /\ handlers < MaxHandlers
    /\ handlers' = handlers + 1
    /\ log.exists /\ log.data # <<>>
    /\ undo_last' = log.data[Len(log.data)]
    /\ undo_data' = PopLast(log.data)
    /\ undone' = 0
    /\ uk' = 1
    /\ pc' = "undo"
    /\ undo_msg' = NoMsg
    /\ hist' = IF hist.op = "batch_done" THEN Settled(hist, "undoing")
               ELSE Forget(hist)
    /\ UNCHANGED <<fs, log, items, WorkerVars, ColVars>>
    /\ UNCHANGED ClassifierVars

\* A turn of the undo loop that stops the loop at an entry it cannot move
\* back, and counts every entry it visits.
UndoStepAborting(fault) ==
    /\ pc = "undo"
    /\ uk <= Len(undo_last.ops)
    /\ LET op == undo_last.ops[ReversedIndex(Len(undo_last.ops), uk)]
       IN  IF ~Exists(fs, op.to) \/ fault
           THEN /\ uk' = Len(undo_last.ops) + 1
                /\ undone' = undone + 1
                /\ hist' = Unlogged(hist)
                /\ UNCHANGED fs
           ELSE /\ fs' = ShutilMove(fs, op.to, op.from)
                /\ undone' = undone + 1
                /\ uk' = uk + 1
                /\ UNCHANGED hist
    /\ UNCHANGED <<log, items, pc, WorkerVars, ColVars, undo_last, undo_data,
                   undo_msg, handlers>>
    /\ UNCHANGED ClassifierVars

\* undo_last_move: one turn of the loop over reversed(last["ops"]).
\* fault: shutil.move raises, which the loop swallows.
UndoStep(fault) ==
    /\ pc = "undo"
    /\ uk <= Len(undo_last.ops)
    /\ LET op == undo_last.ops[ReversedIndex(Len(undo_last.ops), uk)]
       IN  IF ~Exists(fs, op.to)
           THEN UNCHANGED <<fs, undone, hist>>
           ELSE IF fault
           THEN /\ hist' = Unlogged(hist)
                /\ UNCHANGED <<fs, undone>>
           ELSE /\ fs' = ShutilMove(fs, op.to, op.from)
                /\ undone' = undone + 1
                /\ UNCHANGED hist
    /\ uk' = uk + 1
    /\ UNCHANGED <<log, items, pc, WorkerVars, ColVars, undo_last, undo_data,
                   undo_msg, handlers>>
    /\ UNCHANGED ClassifierVars

\* undo_last_move after the loop: rewrite the log without the batch and
\* return the count; on_undo then rescans
UndoFinish ==
    /\ pc = "undo"
    /\ uk > Len(undo_last.ops)
    /\ log' = [exists |-> TRUE, data |-> undo_data]
    /\ undo_msg' = [text |-> "Undid n file(s).", n |-> undone]
    /\ items' = scan_folder(fs)
    /\ pc' = "idle"
    /\ undo_last' = <<>>
    /\ undo_data' = <<>>
    /\ uk' = 1
    /\ undone' = 0
    /\ hist' = [Settled(hist, "undo") EXCEPT
                   !.undos = IF hist.lifo THEN @ + 1 ELSE 0]
    /\ UNCHANGED <<fs, WorkerVars, ColVars, handlers>>
    /\ UNCHANGED ClassifierVars

Next ==
    \/ OnScan
    \/ \E n \in 1..Len(items) : OnToggleInclude(n)
    \/ \E n \in 1..Len(items), tgt \in TOP_SLOTS : OnApplySelected(n, tgt)
    \/ OnComplete
    \/ \E fault \in BOOLEAN : WorkerStep(fault)
    \/ WorkerSave
    \/ UiDoneCollisions
    \/ UiDoneClean
    \/ \E n \in 1..Len(collision_plan), b \in BOOLEAN : ColSetProtect(n, b)
    \/ ColCancel
    \/ \E fault1, fault2 \in BOOLEAN : ColApplyCase(fault1, fault2)
    \/ ColApplyFinish
    \/ UndoNothing
    \/ UndoBegin
    \/ \E fault \in BOOLEAN : UndoStep(fault)
    \/ UndoFinish

Spec == Init /\ [][Next]_vars

-----------------------------------------------------------------------------
(* plan_collisions and _col_apply on their own: a source and a destination *)
(* with any two names, as the functions accept them.                       *)

Digits2(n) == <<Digits[(n \div 10) + 1], Digits[(n % 10) + 1]>>

MonthAbbr(m) ==
    CASE m = 1 -> <<"J", "a", "n">>
      [] m = 6 -> <<"j", "u", "n">>
      [] m = 11 -> <<"n", "o", "v">>

\* The ways a calendar date is written into a file name.
DateText(fmt, y, m, d) ==
    CASE fmt = "Y-M-D" -> IntChars(y) \o <<"-">> \o Digits2(m) \o <<"-">> \o Digits2(d)
      [] fmt = "D-M-Y" -> Digits2(d) \o <<"-">> \o Digits2(m) \o <<"-">> \o IntChars(y)
      [] fmt = "D mon Y" -> IntChars(d) \o <<" ">> \o MonthAbbr(m) \o <<" ">> \o IntChars(y)
      [] fmt = "mon D Y" -> MonthAbbr(m) \o <<" ">> \o IntChars(d) \o <<" ">> \o IntChars(y)

DateFormats == {"Y-M-D", "D-M-Y", "D mon Y", "mon D Y"}

TestDates == {<<2023, 1, 1>>, <<2023, 1, 15>>, <<2024, 11, 5>>}

\* modA (<date>).package, with the date it carries
DatedNames ==
    {[name |-> Name(<<"m", "o", "d", "A", " ", "(">>
                    \o DateText(fmt, ymd[1], ymd[2], ymd[3]) \o <<")">>,
                    ExtPackage),
      y |-> ymd[1], m |-> ymd[2], d |-> ymd[3]] :
        fmt \in DateFormats, ymd \in TestDates}

UndatedName == Name(<<"m", "o", "d", "A">>, ExtPackage)

PlanNames == {dn.name : dn \in DatedNames} \cup {UndatedName}

\* mtime, ctime and newest zip entry of the files of this specification
PlanTimes == {[mtime |-> TimeLate, ctime |-> TimeLate, zip |-> 0],
              [mtime |-> TimeEarly, ctime |-> TimeLate, zip |-> 0],
              [mtime |-> 0, ctime |-> 0, zip |-> 0],
              [mtime |-> TimeLate, ctime |-> TimeLate, zip |-> TimeEarly]}

InitPlan ==
    /\ \E n1, n2 \in PlanNames, t1, t2 \in PlanTimes :
          LET src == Path(".", n1)
              dst == Path("CAS", n2)
          IN  /\ fs = (src :> NewFile(src, [cat |-> "CAS Hair"] @@ t1))
                      @@ (dst :> NewFile(dst, [cat |-> "CAS Hair"] @@ t2))
              /\ collisions_total = <<[src |-> src, dst |-> dst]>>
    /\ pc = "ui_done"
    /\ log = NoLog
    /\ items = <<>>
    /\ plan = <<>>
    /\ wi = 1
    /\ moves_log_all = <<>>
    /\ moved_total = 0
    /\ collision_plan = <<>>
    /\ cj = 1
    /\ moved_ops = <<>>
    /\ undo_last = <<>>
    /\ undo_data = <<>>
    /\ uk = 1
    /\ undone = 0
    /\ undo_msg = NoMsg
    /\ handlers = 0
    /\ hist = NoHist
    /\ ClassifierAtRest

NextPlan ==
    \/ UiDoneCollisions
    \/ \E fault1, fault2 \in BOOLEAN : ColApplyCase(fault1, fault2)
    \/ ColApplyFinish

SpecPlan == InitPlan /\ [][NextPlan]_vars

-----------------------------------------------------------------------------
(* A mods root that has just been scanned: the handlers of Next, started   *)
(* with the table filled, so that two batches and their undos fit in       *)
(* MaxHandlers.                                                            *)

\* The files of these roots are CAS hair, modified early or late.
LifoAttrs == {at \in InitAttrs : at.cat = "CAS Hair"}

InitLifo ==
    /\ \E S \in SUBSET InitPaths :
          /\ Cardinality(S) \in 1..MaxFiles
          /\ \E at \in [S -> LifoAttrs] : fs = [p \in S |-> NewFile(p, at[p])]
    /\ pc = "idle"
    /\ log = NoLog
    /\ items = scan_folder(fs)
    /\ plan = <<>>
    /\ wi = 1
    /\ moves_log_all = <<>>
    /\ collisions_total = <<>>
    /\ moved_total = 0
    /\ collision_plan = <<>>
    /\ cj = 1
    /\ moved_ops = <<>>
    /\ undo_last = <<>>
    /\ undo_data = <<>>
    /\ uk = 1
    /\ undone = 0
    /\ undo_msg = NoMsg
    /\ handlers = 0
    /\ hist = NoHist
    /\ ClassifierAtRest

SpecLifo == InitLifo /\ [][Next]_vars

-----------------------------------------------------------------------------
(* The handlers with their threads.  on_scan and on_complete start a       *)
(* worker with threading.Thread(...).start() and return; the worker ends   *)
(* by queueing ui_done with self.after(0, ...), which the Tk loop runs     *)
(* later on the UI thread.  No handler tests whether a worker is running.  *)
(* A handler and a callback run whole on the UI thread; the workers take   *)
(* their turns between them.  While the collision overlay covers the       *)
(* window only its own buttons can be pressed.                             *)

MaxThreads == 2    \* worker threads alive at a time

\* A worker thread that has just been started
Thread(op, its) ==
    [op |-> op, at |-> "start", out |-> <<>>, plan |-> its, wi |-> 1,
     moves_log_all |-> <<>>, collisions_total |-> <<>>]

\* A sequence without its element n
Without(seq, n) == SubSeq(seq, 1, n - 1) \o SubSeq(seq, n + 1, Len(seq))

\* undo_last_move: the loop over reversed(last["ops"]), no move raising
RECURSIVE UndoFrom(_, _, _, _)
UndoFrom(f, ops, k, n) ==
    IF k > Len(ops) THEN [fs |-> f, undone |-> n]
    ELSE LET op == ops[ReversedIndex(Len(ops), k)]
         IN  IF ~Exists(f, op.to) THEN UndoFrom(f, ops, k + 1, n)
             ELSE UndoFrom(ShutilMove(f, op.to, op.from), ops, k + 1, n + 1)

\* undo_last_move(mods_root): the disk, the log and the message afterwards
undo_last_move(f, lg) ==
    IF ~lg.exists
    THEN [fs |-> f, log |-> lg, msg |-> [text |-> "No move log found.", n |-> 0]]
    ELSE IF lg.data = <<>>
    THEN [fs |-> f, log |-> lg, msg |-> [text |-> "Move log empty.", n |-> 0]]
    ELSE LET r == UndoFrom(f, lg.data[Len(lg.data)].ops, 1, 0)
         IN  [fs |-> r.fs,
              log |-> [exists |-> TRUE, data |-> PopLast(lg.data)],
              msg |-> [text |-> "Undid n file(s).", n |-> r.undone]]

\* _col_apply: the loop over the plan, no move raising
RECURSIVE ColApplyFrom(_, _, _, _)
ColApplyFrom(f, ops, cplan, j) ==
    IF j > Len(cplan) THEN [fs |-> f, ops |-> ops]
    ELSE LET r == ColResolve(f, ops, cplan[j], FALSE, FALSE)
         IN  ColApplyFrom(r.fs, r.ops, cplan, j + 1)

InitThreads ==
    /\ \E S \in SUBSET InitPaths :
          /\ Cardinality(S) \in 1..MaxFiles
          /\ \E at \in [S -> LifoAttrs] : fs = [p \in S |-> NewFile(p, at[p])]
    /\ pc = "idle"
    /\ InitRest
    /\ ClassifierAtRest

\* What a handler of this specification leaves alone
ThreadRest == <<file, cur, step, calls, opts, walk, si, scan_out, progress,
                spc, WorkerVars, cj, moved_ops, undo_last, undo_data, uk,
                undone, hist, DirVars>>

\* on_scan: self.items = [], then the worker is started
ClickScan ==
    /\ pc = "idle"
    /\ handlers < MaxHandlers
    /\ Len(threads) < MaxThreads
    /\ handlers' = handlers + 1
    /\ items' = <<>>
    /\ threads' = Append(threads, Thread("scan", <<>>))
    /\ UNCHANGED <<fs, log, pc, afterq, collision_plan, undo_msg, ThreadRest>>

\* on_scan.worker: scan_folder and bundle_scripts_and_packages fill the
\* worker's own list
ScanWorkerScan(t) ==
    /\ threads[t].op = "scan"
    /\ threads[t].at = "start"
    /\ threads' = [threads EXCEPT ![t].out = scan_folder(fs),
                                  ![t].at = "scanned"]
    /\ UNCHANGED <<fs, log, items, pc, afterq, collision_plan, undo_msg,
                   handlers, ThreadRest>>

\* on_scan.worker: self.after(0, ui_done); the thread ends
ScanWorkerHandOver(t) ==
    /\ threads[t].op = "scan"
    /\ threads[t].at = "scanned"
    /\ afterq' = Append(afterq, [cb |-> "scan", items |-> threads[t].out,
                                 collisions_total |-> <<>>])
    /\ threads' = Without(threads, t)
    /\ UNCHANGED <<fs, log, items, pc, collision_plan, undo_msg, handlers,
                   ThreadRest>>

\* on_scan.worker.ui_done, run by the Tk loop: self.items = items
TkScanDone ==
    /\ afterq # <<>>
    /\ Head(afterq).cb = "scan"
    /\ items' = Head(afterq).items
    /\ afterq' = Tail(afterq)
    /\ UNCHANGED <<fs, log, pc, threads, collision_plan, undo_msg, handlers,
                   ThreadRest>>

\* on_complete: the plan is made of the included items and the worker is
\* started; with no items or nothing included the handler returns
ClickComplete ==
    /\ pc = "idle"
    /\ handlers < MaxHandlers
    /\ Len(threads) < MaxThreads
    /\ items # <<>>
    /\ SelectSeq(items, LAMBDA it : it.include) # <<>>
    /\ handlers' = handlers + 1
    /\ threads' = Append(threads,
                         Thread("move", SelectSeq(items, LAMBDA it : it.include)))
    /\ UNCHANGED <<fs, log, items, pc, afterq, collision_plan, undo_msg,
                   ThreadRest>>

\* on_complete.worker: one turn of the loop, perform_moves([it], mods); an
\* exception out of it ends the thread
MoveWorkerStep(t) ==
    /\ threads[t].op = "move"
    /\ threads[t].wi <= Len(threads[t].plan)
    /\ LET th == threads[t]
           r == perform_moves(<<th.plan[th.wi]>>, fs, {})
       IN  /\ fs' = r.fs
           /\ threads' =
                 IF r.raised THEN Without(threads, t)
                 ELSE [threads EXCEPT
                          ![t].wi = @ + 1,
                          ![t].moves_log_all = @ \o r.logs,
                          ![t].collisions_total = @ \o r.collisions]
    /\ UNCHANGED <<log, items, pc, afterq, collision_plan, undo_msg, handlers,
                   ThreadRest>>

\* on_complete.worker after the loop: save_moves_log, self.after(0, ui_done);
\* the thread ends
MoveWorkerSave(t) ==
    /\ threads[t].op = "move"
    /\ threads[t].wi > Len(threads[t].plan)
    /\ log' = save_moves_log(log, threads[t].moves_log_all)
    /\ afterq' = Append(afterq,
                        [cb |-> "move", items |-> <<>>,
                         collisions_total |-> threads[t].collisions_total])
    /\ threads' = Without(threads, t)
    /\ UNCHANGED <<fs, items, pc, collision_plan, undo_msg, handlers,
                   ThreadRest>>

\* on_complete.worker.ui_done, run by the Tk loop: the overlay on
\* collisions; else on_clean_folders(auto=True), whose exception ends the
\* callback before on_scan
TkMoveDone ==
    /\ afterq # <<>>
    /\ Head(afterq).cb = "move"
    /\ afterq' = Tail(afterq)
    /\ IF Head(afterq).collisions_total # <<>>
       THEN /\ collision_plan' =
                  plan_collisions(fs, Head(afterq).collisions_total)
            /\ pc' = "overlay"
            /\ UNCHANGED fs
       ELSE /\ \E order \in WalkOrders(fs) :
                  fs' = on_clean_folders(fs, order, 0).fs
            /\ UNCHANGED <<pc, collision_plan>>
    /\ UNCHANGED <<log, items, threads, undo_msg, handlers, ThreadRest>>

\* on_undo: undo_last_move on the UI thread, then on_scan
ClickUndo ==
    /\ pc = "idle"
    /\ handlers < MaxHandlers
    /\ Len(threads) < MaxThreads
    /\ handlers' = handlers + 1
    /\ LET r == undo_last_move(fs, log)
       IN  /\ fs' = r.fs
           /\ log' = r.log
           /\ undo_msg' = r.msg
    /\ items' = <<>>
    /\ threads' = Append(threads, Thread("scan", <<>>))
    /\ UNCHANGED <<pc, afterq, collision_plan, ThreadRest>>

\* on_clean_folders from its button: the flatten pass on the UI thread; the
\* summary line raises and on_scan is not reached
ClickCleanFolders ==
    /\ pc = "idle"
    /\ handlers < MaxHandlers
    /\ handlers' = handlers + 1
    /\ \E order \in WalkOrders(fs) : fs' = on_clean_folders(fs, order, 0).fs
    /\ UNCHANGED <<log, items, pc, threads, afterq, collision_plan, undo_msg,
                   ThreadRest>>

\* _col_apply from the overlay: the cases resolved on the UI thread, the
\* batch logged, the overlay hidden, on_clean_folders(auto=True) and, on its
\* exception, on_scan
ClickColApply ==
    /\ pc = "overlay"
    /\ handlers < MaxHandlers
    /\ Len(threads) < MaxThreads
    /\ handlers' = handlers + 1
    /\ LET r == ColApplyFrom(fs, <<>>, collision_plan, 1)
       IN  /\ log' = save_moves_log(log, r.ops)
           /\ \E order \in WalkOrders(r.fs) :
                 fs' = on_clean_folders(r.fs, order, 0).fs
    /\ collision_plan' = <<>>
    /\ pc' = "idle"
    /\ items' = <<>>
    /\ threads' = Append(threads, Thread("scan", <<>>))
    /\ UNCHANGED <<afterq, undo_msg, ThreadRest>>

NextThreads ==
    \/ ClickScan
    \/ \E t \in 1..Len(threads) : ScanWorkerScan(t)
    \/ \E t \in 1..Len(threads) : ScanWorkerHandOver(t)
    \/ TkScanDone
    \/ ClickComplete
    \/ \E t \in 1..Len(threads) : MoveWorkerStep(t)
    \/ \E t \in 1..Len(threads) : MoveWorkerSave(t)
    \/ TkMoveDone
    \/ ClickUndo
    \/ ClickCleanFolders
    \/ ClickColApply

SpecThreads == InitThreads /\ [][NextThreads]_vars

-----------------------------------------------------------------------------
(* The directories under the mods root.  A directory is the sequence of    *)
(* names that leads to it from the root, <<>> the root itself; a file is   *)
(* the directory it is in and its name.                                    *)

MaxDirs == 3       \* directories under the root at the start
MaxTreeFiles == 2  \* files in the tree at the start

\* p is d or lies under d
IsPrefix(d, p) == Len(d) <= Len(p) /\ SubSeq(p, 1, Len(d)) = d

\* os.path.dirname(d)
Parent(d) == SubSeq(d, 1, Len(d) - 1)

\* The directories directly in d
SubDirs(t, d) == {c \in t.dirs : c # <<>> /\ Parent(c) = d}

\* not os.listdir(d)
ListdirEmpty(t, d) ==
    /\ SubDirs(t, d) = {}
    /\ \A f \in t.files : f.dir # d

\* The directories in the orders a walk from the top down can yield them
RECURSIVE TopDown(_, _), TopDownEach(_, _)
TopDown(t, d) ==
    {<<d>> \o w : w \in UNION {TopDownEach(t, o) : o \in Orders(SubDirs(t, d))}}

TopDownEach(t, o) ==
    IF o = <<>> THEN {<<>>}
    ELSE {a \o b : a \in TopDown(t, Head(o)), b \in TopDownEach(t, Tail(o))}

\* os.walk(d, topdown=False): the directories in the orders it can yield
\* them, each one after everything under it
RECURSIVE BottomUp(_, _), BottomUpEach(_, _)
BottomUp(t, d) ==
    {w \o <<d>> : w \in UNION {BottomUpEach(t, o) : o \in Orders(SubDirs(t, d))}}

BottomUpEach(t, o) ==
    IF o = <<>> THEN {<<>>}
    ELSE {a \o b : a \in BottomUp(t, Head(o)), b \in BottomUpEach(t, Tail(o))}

\* The names of the model's directories
DirBuildBuy == <<"B", "u", "i", "l", "d", " ", "B", "u", "y">>
DirBuildMode == <<"B", "u", "i", "l", "d", " ", "M", "o", "d", "e">>
DirBuild_Buy == <<"b", "u", "i", "l", "d", "_", "b", "u", "y">>
DirOverrides == <<"O", "v", "e", "r", "r", "i", "d", "e", "s">>
DirOverride == <<"o", "v", "e", "r", "r", "i", "d", "e">>
DirMisc == <<"M", "i", "s", "c">>
DirIn == <<"I", "n">>
DirDeep == <<"D", "e", "e", "p">>

\* The places a directory of the model can be at
DirPlaces ==
    {<<DirBuildBuy>>, <<DirBuild_Buy>>, <<DirBuild_Buy, DirIn>>,
     <<DirOverride>>, <<DirMisc>>, <<DirMisc, DirIn>>,
     <<DirMisc, DirIn, DirDeep>>}

\* The file of the model: x.package
TreeFile(d) == [dir |-> d, name |-> PlainName]

\* The trees a call starts on: the root, up to MaxDirs directories, each
\* with its parent, and up to MaxTreeFiles files in them.
InitTrees ==
    {[dirs |-> ds \cup {<<>>}, files |-> {TreeFile(d) : d \in fd}] :
        ds \in {D \in SUBSET DirPlaces :
                   /\ Cardinality(D) <= MaxDirs
                   /\ \A d \in D : Parent(d) \in D \cup {<<>>}},
        fd \in {F \in SUBSET (DirPlaces \cup {<<>>}) :
                   Cardinality(F) <= MaxTreeFiles}} \cap
    {t \in [dirs : SUBSET (DirPlaces \cup {<<>>}),
            files : SUBSET {TreeFile(d) : d \in DirPlaces \cup {<<>>}}] :
        \A f \in t.files : f.dir \in t.dirs}

InitDirs ==
    /\ fs = <<>>
    /\ pc = "idle"
    /\ InitRest
    /\ threads = <<>>
    /\ afterq = <<>>
    /\ file = <<>>
    /\ cur = <<>>
    /\ step = 0
    /\ calls = <<>>
    /\ opts = <<>>
    /\ walk = <<>>
    /\ si = 0
    /\ scan_out = <<>>
    /\ progress = <<>>
    /\ spc = "none"
    /\ tree \in InitTrees
    /\ dwalk = <<>>
    /\ removed = 0
    /\ dpc = "idle"
    /\ dres = <<>>
    /\ dhist = [tree0 |-> tree, failed |-> FALSE, folder_map |-> <<>>]

\* What the two functions leave alone
DirRest == <<AppVars, file, cur, step, calls, opts, walk, si, scan_out,
             progress, spc, ThreadVars>>

\* purge_empty_dirs(mods_root): removed = 0 and the walk is started
PurgeStart ==
    /\ dpc = "idle"
    /\ dwalk' \in BottomUp(tree, <<>>)
    /\ removed' = 0
    /\ dpc' = "purge"
    /\ UNCHANGED <<tree, dres, dhist, DirRest>>

\* purge_empty_dirs: one turn of the loop.  fault: os.rmdir raises, which
\* the loop swallows.
PurgeTurn(fault) ==
    /\ dpc = "purge"
    /\ dwalk # <<>>
    /\ LET root == Head(dwalk)
       IN  IF root = <<>> \/ ~ListdirEmpty(tree, root)
           THEN UNCHANGED <<tree, removed, dhist>>
           ELSE IF fault
           THEN /\ dhist' = [dhist EXCEPT !.failed = TRUE]
                /\ UNCHANGED <<tree, removed>>
           ELSE /\ tree' = [tree EXCEPT !.dirs = @ \ {root}]
                /\ removed' = removed + 1
                /\ UNCHANGED dhist
    /\ dwalk' = Tail(dwalk)
    /\ UNCHANGED <<dpc, dres, DirRest>>

\* purge_empty_dirs: return removed
PurgeReturn ==
    /\ dpc = "purge"
    /\ dwalk = <<>>
    /\ dres' = removed
    /\ dpc' = "purged"
    /\ UNCHANGED <<tree, dwalk, removed, dhist, DirRest>>

\* s with every a replaced by b
ReplaceChar(s, a, b) == [n \in 1..Len(s) |-> IF s[n] = a THEN b ELSE s[n]]

\* s.strip()
RECURSIVE StripSpaces(_)
StripSpaces(s) ==
    IF s = <<>> THEN s
    ELSE IF Head(s) = " " THEN StripSpaces(Tail(s))
    ELSE IF s[Len(s)] = " " THEN StripSpaces(SubSeq(s, 1, Len(s) - 1))
    ELSE s

\* re.sub(r"\s+", " ", s)
RECURSIVE CollapseSpaces(_)
CollapseSpaces(s) ==
    IF Len(s) < 2 THEN s
    ELSE IF s[1] = " " /\ s[2] = " " THEN CollapseSpaces(Tail(s))
    ELSE <<s[1]>> \o CollapseSpaces(Tail(s))

\* _normalise_key(s)
_normalise_key(s) ==
    CollapseSpaces(Lower(StripSpaces(
        ReplaceChar(ReplaceChar(s, "_", " "), "-", " "))))

\* _NORMALISE_DIRS: the entries for the names of the model, those of the
\* literal first and those of _NORMALISE_DIRS.update(...) after them
_NORMALISE_DIRS ==
    <<[key |-> <<"b", "u", "i", "l", "d", " ", "b", "u", "y">>, val |-> DirBuildBuy],
      [key |-> <<"o", "v", "e", "r", "r", "i", "d", "e">>, val |-> DirOverrides],
      [key |-> <<"o", "v", "e", "r", "r", "i", "d", "e", "s">>, val |-> DirOverrides],
      [key |-> <<"b", "u", "i", "l", "d", " ", "b", "u", "y">>, val |-> DirBuildMode],
      [key |-> <<"b", "u", "i", "l", "d", " ", "m", "o", "d", "e">>, val |-> DirBuildMode]>>

\* _NORMALISE_DIRS.get(key): the entry written last wins; <<>> is None
NormGet(key) ==
    LET at == {n \in 1..Len(_NORMALISE_DIRS) : _NORMALISE_DIRS[n].key = key}
    IN  IF at = {} THEN <<>>
        ELSE _NORMALISE_DIRS[CHOOSE n \in at : \A m \in at : m <= n].val

\* set(_NORMALISE_DIRS.values())
NormValues ==
    {NormGet(_NORMALISE_DIRS[n].key) : n \in 1..Len(_NORMALISE_DIRS)}

\* The folder maps passed in: entries of DEFAULT_FOLDER_MAP
NormFolderMaps ==
    {<<[cat |-> "Build/Buy", folder |-> DirBuildBuy],
       [cat |-> "Overrides", folder |-> DirOverrides]>>,
     <<[cat |-> "Overrides", folder |-> DirOverrides]>>}

\* set(folder_map.values()) | set(_NORMALISE_DIRS.values())
desired_names(fm) == {fm[n].folder : n \in 1..Len(fm)} \cup NormValues

\* The tree after the loop that creates the missing desired folders
Created(t, desired) == [t EXCEPT !.dirs = @ \cup {<<nm>> : nm \in desired}]

\* The names of the directories directly under the root
TopNames(t) == {d[1] : d \in SubDirs(t, <<>>)}

\* existing: the entries of os.listdir in the order the loop over
\* existing.items() meets them, key after key
RECURSIVE ByKey(_)
ByKey(ls) ==
    IF ls = <<>> THEN <<>>
    ELSE LET k == _normalise_key(Head(ls))
         IN  SelectSeq(ls, LAMBDA e : _normalise_key(e) = k)
                 \o ByKey(SelectSeq(ls, LAMBDA e : _normalise_key(e) # k))

\* The target of a key: the synonym table first, then a desired name with
\* that key (the desired names of the model have different keys); <<>> is
\* None
TargetOf(key, desired) ==
    IF NormGet(key) # <<>> THEN NormGet(key)
    ELSE IF \E d \in desired : _normalise_key(d) = key
    THEN CHOOSE d \in desired : _normalise_key(d) = key
    ELSE <<>>

\* os.path.exists of the entry nm of the directory d
TreeExists(t, d, nm) ==
    \/ [dir |-> d, name |-> nm] \in t.files
    \/ Append(d, NameText(nm)) \in t.dirs

\* _unique_path on a file of the tree
RECURSIVE UniqueTreeLoop(_, _, _, _, _)
UniqueTreeLoop(t, d, nm, out, n) ==
    IF TreeExists(t, d, out)
    THEN UniqueTreeLoop(t, d, nm, Suffixed(nm, n), n + 1)
    ELSE out

UniqueTreeName(t, d, nm) == UniqueTreeLoop(t, d, nm, nm, 1)

\* _merge_or_rename_dir(src_dir, dst_dir), no call raising.  With dst there:
\* every directory under src is made under dst, its files are moved across
\* under free names and it is removed, src last.  (A directory under dst
\* receives the files of one directory under src, so the order of the
\* moves does not show.)  Without dst: os.rename.
_merge_or_rename_dir(t, src, dst) ==
    LET S == {d \in t.dirs : IsPrefix(src, d)}
        F == {f \in t.files : IsPrefix(src, f.dir)}
        Rebase(d) == dst \o SubSeq(d, Len(src) + 1, Len(d))
    IN  IF dst \in t.dirs
        THEN [tree |->
                 [dirs |-> (t.dirs \ S) \cup {Rebase(d) : d \in S},
                  files |-> (t.files \ F) \cup
                      {[dir |-> Rebase(f.dir),
                        name |-> UniqueTreeName(t, Rebase(f.dir), f.name)] :
                          f \in F}],
              moved |-> Cardinality(F), removed |-> Cardinality(S)]
        ELSE [tree |->
                 [dirs |-> (t.dirs \ S) \cup {Rebase(d) : d \in S},
                  files |-> (t.files \ F) \cup
                      {[dir |-> Rebase(f.dir), name |-> f.name] : f \in F}],
              moved |-> 0, removed |-> 0]

\* normalise_top_level_folders: the loop over the existing directories
RECURSIVE NormFrom(_, _, _, _)
NormFrom(t, entries, desired, acc) ==
    IF entries = <<>> THEN [tree |-> t, renamed |-> acc.renamed,
                            merged |-> acc.merged]
    ELSE LET entry == Head(entries)
             target == TargetOf(_normalise_key(entry), desired)
             r == _merge_or_rename_dir(t, <<entry>>, <<target>>)
         IN  IF target = <<>> \/ entry = target
             THEN NormFrom(t, Tail(entries), desired, acc)
             ELSE NormFrom(r.tree, Tail(entries), desired,
                           [renamed |-> Append(acc.renamed, <<entry, target>>),
                            merged |-> acc.merged + r.moved])

\* normalise_top_level_folders(mods_root, folder_map); ls: the directories
\* under the root in the order os.listdir gives them
normalise_top_level_folders(t, fm, ls) ==
    LET desired == desired_names(fm)
        r == NormFrom(Created(t, desired), ByKey(ls), desired,
                      [renamed |-> <<>>, merged |-> 0])
    IN  [tree |-> r.tree,
         res |-> [renamed |-> r.renamed, merged_files |-> r.merged,
                  created |-> Cardinality({nm \in desired : <<nm>> \notin t.dirs})]]

\* The directories under the root the loop acts on: it passes over one
\* without a target and one that has its target's name
ActedOn(t, desired) ==
    {nm \in TopNames(t) :
        TargetOf(_normalise_key(nm), desired) \notin {<<>>, nm}}

\* normalise_top_level_folders called on the tree with one of the folder
\* maps; os.listdir may give the directories in any order, and the order of
\* those the loop acts on is what shows
CallNormalise ==
    /\ dpc = "idle"
    /\ \E fm \in NormFolderMaps :
          \E ls \in Orders(ActedOn(Created(tree, desired_names(fm)),
                                   desired_names(fm))) :
             LET r == normalise_top_level_folders(tree, fm, ls)
             IN  /\ tree' = r.tree
                 /\ dres' = r.res
                 /\ dhist' = [dhist EXCEPT !.folder_map = fm]
    /\ dpc' = "normalised"
    /\ UNCHANGED <<dwalk, removed, DirRest>>

NextDirs ==
    \/ PurgeStart
    \/ \E fault \in BOOLEAN : PurgeTurn(fault)
    \/ PurgeReturn
    \/ CallNormalise

SpecDirs == InitDirs /\ [][NextDirs]_vars

-----------------------------------------------------------------------------
(* The classifier functions on their own: each is called on a file and a   *)
(* current result, and a second call receives the result of the first.     *)

MaxCalls == 2      \* calls per behaviour

\* No handler has touched the mods root: only the classifier is looked at.
AppAtRest ==
    /\ DirsAtRest
    /\ threads = <<>>
    /\ afterq = <<>>
    /\ fs = <<>>
    /\ pc = "idle"
    /\ InitRest

\* A file as the classifier sees it: the directories of its relative path,
\* its name, whether opening it fails, whether it starts with b"DBPF", and
\* the resource type ids in its head and tail.
ScanFile(dirs, name, broken, dbpf, hits) ==
    [dirs |-> dirs, name |-> name, broken |-> broken, dbpf |-> dbpf,
     hits |-> hits]

PlainFile(dirs, name) == ScanFile(dirs, name, FALSE, FALSE, {})

FnBases == {<<"M", "y", "M", "o", "d">>,
            <<"h", "a", "i", "r", "a", "r", "t">>,
            <<"e", "y", "e", "s">>,
            <<"a", "r", "t", "t", "o", "p">>,
            <<"t", "a", "t", "t", "o", "o">>,
            <<"h", "A", "i", "r">>}

FnExts == {ExtScript, ExtPackage, ExtZip, <<".", "t", "x", "t">>, <<>>}

DirCAS == <<"C", "A", "S">>
DirStuff == <<"s", "t", "u", "f", "f">>
DirHair == <<"H", "a", "i", "r">>
MyModPackage == <<"M", "y", "M", "o", "d">> \o ExtPackage

FnFiles ==
    {PlainFile(<<>>, b \o e) : b \in FnBases, e \in FnExts}
    \cup {PlainFile(d, MyModPackage) :
            d \in {<<DirCAS>>, <<DirStuff>>, <<DirHair, DirStuff>>,
                   <<DirHair, DirCAS>>}}
    \cup {ScanFile(<<>>, MyModPackage, FALSE, TRUE, h) :
            h \in {{}, {"0x034AEECB"}, {"0x01D10F34"},
                   {"0x319E4F1D", "0x0333406C"}}}
    \cup {ScanFile(<<>>, MyModPackage, TRUE, TRUE, {"0x034AEECB"}),
          ScanFile(<<>>, MyModPackage \o ExtOff, FALSE, TRUE, {"0x034AEECB"}),
          ScanFile(<<>>, <<"M", "y", "M", "o", "d">> \o ExtScript, FALSE, TRUE,
                   {"0x034AEECB"})}

FnConfs == {0, 40, 70, 75, 78, 80, 85, 95}

CurInputs ==
    {Result(c, k, <<>>) : c \in {"Unknown", "CAS Clothing", "Other"},
                          k \in FnConfs}

InitFn ==
    /\ AppAtRest
    /\ file \in FnFiles
    /\ cur \in CurInputs
    /\ step = 0
    /\ calls = <<>>
    /\ opts = <<>>
    /\ walk = <<>>
    /\ si = 0
    /\ scan_out = <<>>
    /\ progress = <<>>
    /\ spc = "none"

\* A call of fn with the current result, returning res
Called(fn, res) ==
    /\ Len(calls) < MaxCalls
    /\ calls' = Append(calls, [fn |-> fn, arg |-> cur, res |-> res])
    /\ UNCHANGED <<AppVars, file, step, opts, walk, si, scan_out, progress,
                   spc>>
    /\ UNCHANGED <<ThreadVars, DirVars>>

CallGuessTypeForName ==
    LET res == guess_type_for_name(file.name, detect_real_ext(file.name).ext)
    IN  Called("guess_type_for_name", res) /\ cur' = res

CallGuessTypeBinary ==
    LET res == guess_type_binary(file, cur)
    IN  Called("guess_type_binary", res) /\ cur' = res

CallBoostFromParentDirs ==
    LET res == _boost_from_parent_dirs(file.dirs, cur)
    IN  Called("_boost_from_parent_dirs", res) /\ cur' = res

\* map_type_to_folder on the category of the current result, with the
\* folder_slots of the application or, when the settings hold none, with
\* its folder_map.
CallMapTypeToFolder(with_slots) ==
    /\ Called(IF with_slots THEN "map_type_to_folder: folder_slots"
              ELSE "map_type_to_folder: folder_map",
              IF with_slots THEN map_type_to_folder(cur.cat)
              ELSE map_type_to_folder_legacy(cur.cat))
    /\ cur' = cur

NextFn ==
    \/ CallGuessTypeForName
    \/ CallGuessTypeBinary
    \/ CallBoostFromParentDirs
    \/ \E with_slots \in BOOLEAN : CallMapTypeToFolder(with_slots)

SpecFn == InitFn /\ [][NextFn]_vars

-----------------------------------------------------------------------------
(* One classification pass of scan_folder on one file: the stages of       *)
(* classify_file in the configured order, then the parent-directory boost. *)

Stages == {"name", "binary", "ext"}

\* The values of detector_order: the stages in any order, some left out;
\* the empty list stands for the default order.
DetectorOrders ==
    {<<>>}
    \cup {<<a>> : a \in Stages}
    \cup {<<a, b>> : a \in Stages, b \in Stages}
    \cup {o \in {<<a, b, c>> : a \in Stages, b \in Stages, c \in Stages} :
            Cardinality({o[1], o[2], o[3]}) = 3}

\* classify_file: order = order or DEFAULT_DETECTOR_ORDER
OrderUsed(o) ==
    IF o.detector_order = <<>> THEN DEFAULT_DETECTOR_ORDER
    ELSE o.detector_order

InitClassify ==
    /\ AppAtRest
    /\ file \in FnFiles
    /\ \E order \in DetectorOrders, b \in BOOLEAN :
          opts = [detector_order |-> order, use_binary_scan |-> b]
    /\ cur = StartResult
    /\ step = 1
    /\ calls = <<>>
    /\ walk = <<>>
    /\ si = 0
    /\ scan_out = <<>>
    /\ progress = <<>>
    /\ spc = "classify"

\* classify_file: one turn of the loop
ClassifyStep ==
    /\ spc = "classify"
    /\ step <= Len(OrderUsed(opts))
    /\ LET stage == OrderUsed(opts)[step]
           res == ClassifyStage(stage, file, detect_real_ext(file.name).ext,
                                opts.use_binary_scan, cur)
       IN  /\ cur' = res
           /\ calls' = Append(calls, [fn |-> stage, arg |-> cur, res |-> res])
    /\ step' = step + 1
    /\ UNCHANGED <<AppVars, file, opts, walk, si, scan_out, progress, spc>>
    /\ UNCHANGED <<ThreadVars, DirVars>>

\* scan_folder: classify_file has returned, _boost_from_parent_dirs
BoostStep ==
    /\ spc = "classify"
    /\ step > Len(OrderUsed(opts))
    /\ LET res == _boost_from_parent_dirs(file.dirs, cur)
       IN  /\ cur' = res
           /\ calls' = Append(calls, [fn |-> "_boost_from_parent_dirs",
                                      arg |-> cur, res |-> res])
    /\ spc' = "boosted"
    /\ UNCHANGED <<AppVars, file, step, opts, walk, si, scan_out, progress>>
    /\ UNCHANGED <<ThreadVars, DirVars>>

NextClassify ==
    \/ ClassifyStep
    \/ BoostStep

SpecClassify == InitClassify /\ [][NextClassify]_vars

-----------------------------------------------------------------------------
(* on_scan.worker: scan_folder over the files os.walk listed, then         *)
(* bundle_scripts_and_packages, then ui_done.                              *)

MaxWalk == 3       \* files os.walk lists

\* os.path.join of the directories of a relative path
RECURSIVE JoinDirs(_)
JoinDirs(dirs) ==
    IF dirs = <<>> THEN <<>>
    ELSE IF Len(dirs) = 1 THEN dirs[1]
    ELSE dirs[1] \o <<"/">> \o JoinDirs(Tail(dirs))

\* The FileItem scan_folder appends for the file f
ScanItem(f, ext, c, include) ==
    [path |-> [dirs |-> f.dirs, name |-> f.name], name |-> f.name,
     ext |-> ext, guess_type |-> c.cat, confidence |-> c.conf,
     notes |-> c.notes, include |-> include,
     target_folder |-> map_type_to_folder(c.cat)]

\* The ignore lists taken as empty
IgnoredByNothing(f, o) == ""

\* scan_folder: the file is left out by the ignore lists; "" when it is not
IgnoredBy(f, o) ==
    IF detect_real_ext(f.name).ext \in o.ignore_exts THEN "ignored_ext"
    ELSE IF \E n \in 1..Len(o.ignore_name_contains) :
                Contains(o.ignore_name_contains[n], Lower(f.name))
    THEN "ignored_name"
    ELSE ""

\* scan_folder: the body of the try for a file that is not ignored
ScannedOk(f, o) ==
    LET d == detect_real_ext(f.name)
        c == _boost_from_parent_dirs(
                 f.dirs, classify_file(f, d.ext, o.detector_order,
                                       o.use_binary_scan))
        notes == IF d.disabled
                 THEN Append(c.notes, Note("disabled (.off)", <<>>))
                 ELSE c.notes
    IN  ScanItem(f, d.ext, Result(c.cat, c.conf, notes), ~d.disabled)

\* scan_folder: the except branch
ScannedError(f) ==
    ScanItem(f, Lower(SplitExt(f.name)[2]),
             Result("Unknown", 0, <<Note("scan error: ", <<>>)>>), FALSE)

\* on_scan.progress_cb: the state handed on to _progress_update_ui
ProgressState(state) ==
    IF state \in {"ignored_ext", "ignored_name"} THEN "ignored" ELSE state

\* The sort key of scan_folder compared: category position, then the
\* lowercased parent directory, then the lowercased name.
ScanItemBefore(a, b) ==
    LET ca == CategoryIndex(a.guess_type)
        cb == CategoryIndex(b.guess_type)
        da == Lower(JoinDirs(a.path.dirs))
        db == Lower(JoinDirs(b.path.dirs))
    IN  IF ca # cb THEN ca < cb
        ELSE IF da # db THEN StrLess(da, db)
        ELSE StrLess(Lower(a.name), Lower(b.name))

\* out.sort(key=...), stable
RECURSIVE SortedScanItems(_)
SortedScanItems(seq) ==
    IF seq = <<>> THEN <<>>
    ELSE LET rest == SortedScanItems(SubSeq(seq, 1, Len(seq) - 1))
             last == seq[Len(seq)]
             keep == {n \in 1..Len(rest) : ~ScanItemBefore(last, rest[n])}
             at == IF keep = {} THEN 0
                   ELSE CHOOSE n \in keep : \A m \in keep : m <= n
         IN  SubSeq(rest, 1, at) \o <<last>> \o SubSeq(rest, at + 1, Len(rest))

\* os.path.splitext(it.name)[0].lower()
Stem(it) == Lower(SplitExt(it.name)[1])

\* bundle_scripts_and_packages(items): by_stem_scripts keeps the last script
\* of a stem; a package of that stem takes its target folder.
bundle_scripts_and_packages(its) ==
    [n \in 1..Len(its) |->
        LET it == its[n]
            scripts == {m \in 1..Len(its) : /\ its[m].ext = ExtScript
                                            /\ Stem(its[m]) = Stem(it)}
            script == its[CHOOSE m \in scripts : \A k \in scripts : k <= m]
        IN  IF it.ext # ExtPackage \/ scripts = {} THEN it
            ELSE IF it.target_folder # script.target_folder
            THEN [it EXCEPT !.target_folder = script.target_folder,
                            !.notes = Append(it.notes,
                                             Note("paired with script", <<>>))]
            ELSE it]

\* The places of the mods root a file can be listed at
\* LOG_NAME, the move log that save_moves_log writes in the mods root
LOG_NAME == <<".", "s", "i", "m", "s", "4", "_", "m", "o", "d", "s", "o", "r",
              "t", "e", "r", "_", "m", "o", "v", "e", "s", ".", "j", "s", "o",
              "n">>

ScanPlaces ==
    {[dirs |-> <<>>, name |-> LOG_NAME],
     [dirs |-> <<>>, name |-> <<"M", "y", "M", "o", "d">> \o ExtScript],
     [dirs |-> <<DirStuff>>, name |-> <<"m", "y", "m", "o", "d">> \o ExtScript],
     [dirs |-> <<>>, name |-> <<"M", "y", "M", "o", "d">> \o ExtPackage],
     [dirs |-> <<>>, name |-> <<"r", "e", "a", "d", "m", "e", ".", "t", "x", "t">>]}

\* The files at those places: readable or not (os.path.getsize raises on a
\* broken link or on a file removed since os.walk listed it)
ScanFiles ==
    {ScanFile(p.dirs, p.name, broken, FALSE, {}) :
        p \in ScanPlaces, broken \in BOOLEAN}

\* The lists os.walk can give: up to MaxWalk files at different places
RECURSIVE Walks(_)
Walks(n) ==
    IF n = 0 THEN {<<>>}
    ELSE LET shorter == Walks(n - 1)
         IN  shorter \cup
             {Append(w, f) : w \in {v \in shorter : Len(v) = n - 1},
                             f \in ScanFiles}

DistinctPlaces(w) ==
    \A n, m \in 1..Len(w) :
        n # m => (w[n].dirs # w[m].dirs \/ w[n].name # w[m].name)

\* The ignore lists of the settings, as _norm_ignore_exts and
\* _norm_ignore_names return them
IgnoreLists ==
    {[exts |-> {}, names |-> <<>>],
     [exts |-> {<<".", "t", "x", "t">>}, names |-> <<>>],
     [exts |-> {}, names |-> <<<<"r", "e", "a", "d">>>>],
     [exts |-> {ExtPackage}, names |-> <<>>]}

InitScan ==
    /\ AppAtRest
    /\ file = <<>>
    /\ cur = <<>>
    /\ step = 0
    /\ calls = <<>>
    /\ \E ig \in IgnoreLists :
          opts = [ignore_exts |-> ig.exts, ignore_name_contains |-> ig.names,
                  detector_order |-> DEFAULT_DETECTOR_ORDER,
                  use_binary_scan |-> TRUE]
    /\ walk \in {w \in Walks(MaxWalk) : w # <<>> /\ DistinctPlaces(w)}
    /\ si = 1
    /\ scan_out = <<>>
    /\ progress = <<>>
    /\ spc = "scan"

\* A scan that stops at the first file that raises
ScanTurnAborting ==
    /\ spc = "scan"
    /\ si <= Len(walk)
    /\ LET f == walk[si]
           state == IF IgnoredBy(f, opts) # "" THEN IgnoredBy(f, opts)
                    ELSE IF f.broken THEN "error"
                    ELSE "ok"
       IN  /\ scan_out' = IF state = "ok"
                          THEN Append(scan_out, ScannedOk(f, opts))
                          ELSE IF state = "error"
                          THEN Append(scan_out, ScannedError(f))
                          ELSE scan_out
           /\ progress' = Append(progress,
                                 [done |-> si, total |-> Len(walk),
                                  path |-> [dirs |-> f.dirs, name |-> f.name],
                                  state |-> ProgressState(state)])
           /\ si' = IF state = "error" THEN Len(walk) + 1 ELSE si + 1
    /\ UNCHANGED <<AppVars, file, cur, step, calls, opts, walk, spc>>
    /\ UNCHANGED <<ThreadVars, DirVars>>

\* scan_folder: one turn of the loop over the files
ScanTurn ==
    /\ spc = "scan"
    /\ si <= Len(walk)
    /\ LET f == walk[si]
           state == IF IgnoredBy(f, opts) # "" THEN IgnoredBy(f, opts)
                    ELSE IF f.broken THEN "error"
                    ELSE "ok"
       IN  /\ scan_out' = IF state = "ok"
                          THEN Append(scan_out, ScannedOk(f, opts))
                          ELSE IF state = "error"
                          THEN Append(scan_out, ScannedError(f))
                          ELSE scan_out
           /\ progress' = Append(progress,
                                 [done |-> si, total |-> Len(walk),
                                  path |-> [dirs |-> f.dirs, name |-> f.name],
                                  state |-> ProgressState(state)])
    /\ si' = si + 1
    /\ UNCHANGED <<AppVars, file, cur, step, calls, opts, walk, spc>>
    /\ UNCHANGED <<ThreadVars, DirVars>>

\* scan_folder returns out sorted; the worker pairs scripts and packages
\* and schedules ui_done.
ScanReturn ==
    /\ spc = "scan"
    /\ si > Len(walk)
    /\ scan_out' = bundle_scripts_and_packages(SortedScanItems(scan_out))
    /\ spc' = "ui_done"
    /\ UNCHANGED <<AppVars, file, cur, step, calls, opts, walk, si, progress>>
    /\ UNCHANGED <<ThreadVars, DirVars>>

\* on_scan.worker.ui_done: self.items = items
UiDoneScan ==
    /\ spc = "ui_done"
    /\ items' = scan_out
    /\ spc' = "done"
    /\ UNCHANGED <<fs, log, pc, WorkerVars, ColVars, UndoVars, handlers, hist,
                   file, cur, step, calls, opts, walk, si, scan_out,
                   progress, ThreadVars, DirVars>>

NextScan ==
    \/ ScanTurn
    \/ ScanReturn
    \/ UiDoneScan

SpecScan == InitScan /\ [][NextScan]_vars

-----------------------------------------------------------------------------
(* Properties *)

\* The destination perform_moves computes for an item.
DestOf(it) == Path(it.target_folder, it.name)

\* The {from,to} entries of all batches of a log.
LogEntries(lg) == UNION {{lg.data[b].ops[e] : e \in 1..Len(lg.data[b].ops)} :
                            b \in 1..Len(lg.data)}

\* The file that was at path q of disk f is at path r of disk g.
SameFileAt(f, q, g, r) == Exists(f, q) /\ Exists(g, r) /\ g[r].orig = f[q].orig

\* C1: a single batch (the log had no batches before it, nothing else
\* touched the disk, no move raised) followed by undo puts every file back
\* at the path it had before the batch and leaves the log without batches.
C1_RoundTrip ==
    (pc = "idle" /\ hist.op = "undo" /\ hist.single)
        => (fs = hist.start_fs /\ log.data = <<>>)

\* C1 witness: such an undo has just put two files back.
C1_Witness ==
    /\ pc = "idle" /\ hist.op = "undo" /\ hist.single
    /\ undo_msg.n >= 2
    /\ fs = hist.start_fs

\* C2 as claimed: when _col_apply ends, the file that was at the source and
\* the file that was at the destination of every case are each at their
\* original path, at the destination path, or under Colliding Mods.
C2_Claimed ==
    [][(pc = "col_apply" /\ pc' = "idle") =>
        \A n \in 1..Len(collision_plan) :
            \A q \in {collision_plan[n].src, collision_plan[n].dst} :
                Exists(hist.col_fs, q) =>
                    \E r \in DOMAIN fs' :
                        /\ SameFileAt(hist.col_fs, q, fs', r)
                        /\ \/ r = q
                           \/ r = collision_plan[n].dst
                           \/ r.dir = COLLIDING_DIR_NAME]_vars

\* C3 as claimed: when the move worker stops, normally or on an exception,
\* and when _col_apply has saved its log, every file relocation the loop
\* made is an entry of the log file.
C3_Claimed ==
    [][((pc = "worker" /\ pc' \in {"idle", "ui_done"})
            \/ (pc = "col_apply" /\ pc' = "idle")) =>
        \A mv \in hist.phys : mv \in LogEntries(log')]_vars

\* C4 as claimed: a move that raises does not end the batch; the worker goes
\* on to the next record and on to saving the log.
C4_Claimed ==
    [][pc = "worker" => pc' \in {"worker", "ui_done"}]_vars

\* C5: for a record whose destination exists, perform_moves records the
\* collision (source, destination) and nothing else happens: the disk and
\* the entries to log are unchanged.
C5_CollisionInsteadOfMove ==
    [][(pc = "worker" /\ wi <= Len(plan) /\ Exists(fs, DestOf(plan[wi]))) =>
        /\ fs' = fs
        /\ log' = log
        /\ moves_log_all' = moves_log_all
        /\ moved_total' = moved_total
        /\ collisions_total' =
              Append(collisions_total,
                     [src |-> plan[wi].path, dst |-> DestOf(plan[wi])])
        /\ pc' = "worker"]_vars

\* C5 witness: the worker has recorded a collision of a file with another
\* file; both are where they were.
C5_Witness ==
    /\ pc = "worker"
    /\ collisions_total # <<>>
    /\ collisions_total[1].src # collisions_total[1].dst
    /\ Exists(fs, collisions_total[1].src)
    /\ Exists(fs, collisions_total[1].dst)
    /\ fs = hist.start_fs

\* C6 as claimed: for a record that already sits at its destination
\* perform_moves produces neither a move nor a collision.
C6_Claimed ==
    [][(pc = "worker" /\ wi <= Len(plan) /\ DestOf(plan[wi]) = plan[wi].path) =>
        /\ fs' = fs
        /\ log' = log
        /\ moves_log_all' = moves_log_all
        /\ collisions_total' = collisions_total]_vars

\* C7: undo visits the entries of the last batch from the last to the
\* first; at each it either moves the file at `to` back to `from` and counts
\* it, or (no file at `to`, or the move raises) changes nothing and goes on;
\* the count reported is the count of the moves made.
C7_UndoReverse ==
    [][/\ (pc = "undo" /\ uk <= Len(undo_last.ops)) =>
            LET op == undo_last.ops[Len(undo_last.ops) + 1 - uk]
            IN  /\ pc' = "undo"
                /\ uk' = uk + 1
                /\ \/ fs' = fs /\ undone' = undone
                   \/ /\ Exists(fs, op.to)
                      /\ undone' = undone + 1
                      /\ Exists(fs', op.from)
                      /\ fs'[op.from] = fs[op.to]
                      /\ op.to # op.from => ~Exists(fs', op.to)
                      /\ \A q \in DOMAIN fs \ {op.to, op.from} :
                            Exists(fs', q) /\ fs'[q] = fs[q]
                /\ ~Exists(fs, op.to) => fs' = fs
       /\ (pc = "undo" /\ pc' = "idle") =>
            /\ uk > Len(undo_last.ops)
            /\ undo_msg'.n = undone
            /\ fs' = fs]_vars

\* C7 witness: a batch of two entries; the last entry could not be moved
\* back (its file is still at `to`), the first one was moved back after it.
C7_Witness ==
    /\ pc = "undo"
    /\ Len(undo_last.ops) = 2
    /\ uk = 3
    /\ undone = 1
    /\ Exists(fs, undo_last.ops[2].to)
    /\ Exists(fs, undo_last.ops[1].from)
    /\ ~Exists(fs, undo_last.ops[1].to)

\* C8: undo on a log with batches rewrites the log as the batches before
\* the last one, unchanged and in order; undo without a log or with an
\* empty log restores nothing and leaves disk and log as they are.
C8_UndoLog ==
    [][/\ (pc = "idle" /\ pc' = "undo") => (log.exists /\ log.data # <<>>)
       /\ (pc = "undo" /\ pc' = "undo") => log' = log
       /\ (pc = "undo" /\ pc' = "idle") =>
            /\ log'.exists
            /\ Len(log'.data) = Len(log.data) - 1
            /\ \A b \in 1..Len(log'.data) : log'.data[b] = log.data[b]
       /\ (pc = "idle" /\ pc' = "idle"
               /\ undo_msg'.text \in {"No move log found.", "Move log empty."}) =>
            /\ fs' = fs
            /\ log' = log
            /\ undo_msg'.n = 0
            /\ ~log.exists \/ log.data = <<>>]_vars

\* C8 witness: an undo has ended and an earlier batch is still in the log.
C8_Witness ==
    /\ pc = "idle"
    /\ undo_msg.n >= 1
    /\ undo_msg.text = "Undid n file(s)."
    /\ Len(log.data) >= 1

C10_Claimed ==
    /\ \A p \in DOMAIN fs : \A dn \in DatedNames :
          p.name = dn.name =>
              best_date_for_file(fs, p) =
                  [ts |-> DateTs(dn.y, dn.m, dn.d), how |-> "filename"]
    /\ \A n \in 1..Len(collision_plan) :
          LET cp == collision_plan[n]
          IN  (/\ \E dn \in DatedNames :
                     /\ cp.src.name = dn.name
                     /\ <<dn.y, dn.m, dn.d>> = <<2023, 1, 1>>
               /\ cp.dst.name = UndatedName
               /\ cp.dst_ts = TimeLate) => cp.older = "src"

-----------------------------------------------------------------------------
(* Properties of the classifier *)

\* The calls of fn made so far
CallsOf(fn) == {n \in 1..Len(calls) : calls[n].fn = fn}

\* The result reports a keyword hit
KeywordHit(res) == res.notes # <<>> /\ res.notes[1].t = "Keyword: "

\* The phrases of the keyword table that are in the lowercased file name
MatchingPhrases(name) ==
    {Lower(_KEYWORDS[k].kw) : k \in {m \in 1..Len(_KEYWORDS) :
        Contains(Lower(_KEYWORDS[m].kw), Lower(name))}}

\* The extensions guess_type_for_name decides on before the keyword table
DecidedByExtension(ext) == ext \in {ExtScript, ExtZip, ExtRar, Ext7z}

\* C11: when keyword phrases are in the lowercased file name, the phrase
\* guess_type_for_name reports is one of them and none of them is longer: a
\* shorter phrase never shadows a longer one.
C11_LongestPhraseWins ==
    \A n \in CallsOf("guess_type_for_name") :
        LET res == calls[n].res
            M == MatchingPhrases(file.name)
        IN  /\ (M # {} /\ ~DecidedByExtension(detect_real_ext(file.name).ext))
                   => KeywordHit(res)
            /\ KeywordHit(res) =>
                   /\ res.notes[1].a \in M
                   /\ \A m \in M : Len(m) <= Len(res.notes[1].a)

\* A name with two phrases of different length in it has been classified by
\* the longer one.
C11_Witness ==
    \E n \in CallsOf("guess_type_for_name") :
        /\ KeywordHit(calls[n].res)
        /\ \E m \in MatchingPhrases(file.name) :
               Len(m) < Len(calls[n].res.notes[1].a)

\* C12 as claimed: the category guess_type_for_name returns for a keyword
\* hit is a member of CATEGORY_ORDER.
C12_Claimed ==
    \A n \in CallsOf("guess_type_for_name") :
        KeywordHit(calls[n].res) =>
            \E k \in 1..Len(CATEGORY_ORDER) :
                CATEGORY_ORDER[k] = calls[n].res.cat

\* C13: guess_type_for_name decides by the script extension, else by an
\* archive extension, else by the first phrase of the keyword table in the
\* lowercased name, else by the .package extension, else "Other"; the same
\* input gives the same result; and a script's result is never below the
\* confidence of a keyword result, whatever keywords its name holds.
C13_FixedOrder ==
    \A n \in CallsOf("guess_type_for_name") :
        LET res == calls[n].res
            ext == detect_real_ext(file.name).ext
            M == MatchingPhrases(file.name)
            byExt == DecidedByExtension(ext)
        IN  /\ ext = ExtScript =>
                   /\ res = Result("Script Mod", 95,
                                   <<Note("by extension", <<>>)>>)
                   /\ res.conf >= 70
            /\ ext \in {ExtZip, ExtRar, Ext7z} =>
                   res.cat = "Archive" /\ res.conf = 70
            /\ (~byExt /\ M # {}) =>
                   /\ res.conf = 70
                   /\ KeywordHit(res)
                   /\ \E k \in 1..Len(_KEYWORDS) :
                          /\ Lower(_KEYWORDS[k].kw) = res.notes[1].a
                          /\ _canon(_KEYWORDS[k].cat) = res.cat
            /\ (~byExt /\ M = {} /\ ext = ExtPackage) =>
                   res.cat = "Unknown" /\ res.conf = 40
            /\ (~byExt /\ M = {} /\ ext # ExtPackage) =>
                   res.cat = "Other" /\ res.conf = 60
            /\ \A m \in CallsOf("guess_type_for_name") : calls[m].res = res

\* A file with the script extension and a keyword in its name has been
\* classified, twice.
C13_Witness ==
    /\ Cardinality(CallsOf("guess_type_for_name")) = 2
    /\ detect_real_ext(file.name).ext = ExtScript
    /\ MatchingPhrases(file.name) # {}

\* C14 as claimed: a second call of guess_type_binary on the same file,
\* given the result of the first, returns that result again.
C14_Claimed ==
    \A n \in 1..(Len(calls) - 1) :
        (/\ calls[n].fn = "guess_type_binary"
         /\ calls[n + 1].fn = "guess_type_binary"
         /\ calls[n + 1].arg = calls[n].res)
            => calls[n + 1].res = calls[n].res

MapCalls ==
    CallsOf("map_type_to_folder: folder_slots")
        \cup CallsOf("map_type_to_folder: folder_map")

\* C19 as claimed: a category that is "Unknown" or has no entry in the
\* folder map resolves to the folder "Unsorted".
C19_Claimed ==
    \A n \in MapCalls :
        (calls[n].arg.cat = "Unknown" \/ calls[n].arg.cat \notin FolderMapKeys)
            => calls[n].res = "Unsorted"

\* C16: in one classification pass the running confidence never goes down
\* from one stage to the next, the category is always a category label
\* (at the start "Unknown" with confidence 0.0), and the confidence stays
\* within 0.0 .. 1.0.
C16_PassMonotone ==
    /\ calls = <<>> => cur = Result("Unknown", 0, <<>>)
    /\ cur.cat \in AllCats
    /\ cur.conf \in 0..100
    /\ \A n \in 1..Len(calls) :
          /\ calls[n].res.conf >= calls[n].arg.conf
          /\ n > 1 => calls[n].arg = calls[n - 1].res

\* A pass of three stages and the boost has ended; the confidence went up in
\* two of its stages and a later stage came back with less than the running
\* confidence.
C16_Witness ==
    /\ spc = "boosted"
    /\ Len(calls) = 4
    /\ Cardinality({n \in 1..3 : calls[n].res.conf > calls[n].arg.conf}) = 2
    /\ \E n \in 1..3 :
          _DETECTOR_FUNCS(calls[n].fn, file, detect_real_ext(file.name).ext,
                          calls[n].arg).conf < calls[n].arg.conf

-----------------------------------------------------------------------------
(* Properties of the scan *)

\* The file is on an ignore list: its extension is an ignored one or an
\* ignored token is in its lowercased name.
OnIgnoreList(f) ==
    \/ detect_real_ext(f.name).ext \in opts.ignore_exts
    \/ \E n \in 1..Len(opts.ignore_name_contains) :
          Contains(opts.ignore_name_contains[n], Lower(f.name))

\* The records made for the n-th file listed
RecordsOf(n) ==
    {k \in 1..Len(scan_out) :
        scan_out[k].path = [dirs |-> walk[n].dirs, name |-> walk[n].name]}

\* The files reported with the given state
Reported(state) == {n \in 1..Len(progress) : progress[n].state = state}

C18_ErrorDoesNotAbort ==
    \A n \in 1..Len(walk) :
        (n < si /\ walk[n].broken /\ ~OnIgnoreList(walk[n])) =>
            /\ \E k \in RecordsOf(n) :
                  /\ scan_out[k].guess_type = "Unknown"
                  /\ scan_out[k].confidence = 0
                  /\ \E j \in 1..Len(scan_out[k].notes) :
                         scan_out[k].notes[j] = Note("scan error: ", <<>>)
            /\ spc # "scan" =>
                  \A m \in (n + 1)..Len(walk) :
                      /\ Len(progress) >= m
                      /\ ~OnIgnoreList(walk[m]) => RecordsOf(m) # {}

\* A scan has ended whose first file raised and whose second file was
\* scanned.
C18_Witness ==
    /\ spc = "done"
    /\ Len(walk) >= 2
    /\ progress[1].state = "error"
    /\ progress[2].state = "ok"

\* C20 as claimed: after the scan and the pairing, a .package record has the
\* target folder of every .ts4script record with the same lowercased stem.
C20_Claimed ==
    spc \in {"ui_done", "done"} =>
        \A p, q \in 1..Len(scan_out) :
            (/\ scan_out[p].ext = ExtPackage
             /\ scan_out[q].ext = ExtScript
             /\ Stem(scan_out[p]) = Stem(scan_out[q]))
                => scan_out[p].target_folder = scan_out[q].target_folder

\* C21 as claimed: after the scan and the pairing, a .package record with
\* the stem of a scanned script has the category "Script Mod", as the
\* script has.
C21_Claimed ==
    spc \in {"ui_done", "done"} =>
        \A p, q \in 1..Len(scan_out) :
            (/\ scan_out[p].ext = ExtPackage
             /\ scan_out[q].ext = ExtScript
             /\ scan_out[q].guess_type = "Script Mod"
             /\ Stem(scan_out[p]) = Stem(scan_out[q]))
                => scan_out[p].guess_type = "Script Mod"

\* C25 as claimed: when classify_file has run every stage of the order, no
\* segment of the reason of its result occurs in it more than once.
C25_Claimed ==
    (spc = "classify" /\ step > Len(OrderUsed(opts))) =>
        \A m, n \in 1..Len(cur.notes) :
            cur.notes[m] = cur.notes[n] => m = n

\* C24 as claimed: in a plan that plan_collisions has just made, a file with
\* no date in its name and no archive date, whose mtime and ctime can both
\* be read, has its mtime as timestamp.
C24_Claimed ==
    (pc = "overlay" /\ cj = 1) =>
        \A n \in 1..Len(collision_plan) :
            LET cp == collision_plan[n]
            IN  (/\ Exists(fs, cp.dst)
                 /\ _parse_date_from_name(NameText(cp.dst.name)) = 0
                 /\ fs[cp.dst].zip = 0
                 /\ fs[cp.dst].mtime # 0
                 /\ fs[cp.dst].ctime # 0)
                    => /\ cp.dst_ts = fs[cp.dst].mtime
                       /\ best_date_for_file(fs, cp.dst).how = "mtime"

\* C28 as claimed: a turn of the undo loop destroys no file: every file on
\* the disk before the turn is on the disk after it, at some path.
C28_Claimed ==
    [][(pc = "undo" /\ uk <= Len(undo_last.ops)) =>
          \A p \in DOMAIN fs : \E q \in DOMAIN fs' : SameFileAt(fs, p, fs', q)]_vars

\* C29 as claimed: the clean/flatten pass that ends a move batch
\* (on_complete.ui_done) or a collision resolution (_col_apply) leaves at
\* every `to` path of the batch just logged the file that was moved there.
C29_Claimed ==
    [][/\ (pc = "ui_done" /\ pc' = "idle") =>
            \A n \in 1..Len(moves_log_all) :
                SameFileAt(fs, moves_log_all[n].to, fs', moves_log_all[n].to)
       /\ (pc = "col_apply" /\ pc' = "idle") =>
            \A n \in 1..Len(moved_ops) :
                Exists(fs, moved_ops[n].to) =>
                    SameFileAt(fs, moved_ops[n].to, fs', moved_ops[n].to)]_vars

C27_Claimed ==
    spc \in {"ui_done", "done"} =>
        \A n \in 1..Len(scan_out) :
            (scan_out[n].path.dirs = <<>> /\ scan_out[n].name = LOG_NAME)
                => ~scan_out[n].include

-----------------------------------------------------------------------------
(* Properties of the threads *)

\* C26 as claimed: a handler that starts a scan, a move, an undo, a clean
\* or a collision resolution never starts while a worker thread of an
\* earlier operation is alive.
C26_Claimed ==
    [][handlers' > handlers => threads = <<>>]_vars

-----------------------------------------------------------------------------
(* Properties of the directory functions *)

\* C22: purge_empty_dirs never removes the root and never a file; when it
\* has returned, the count it returns is the number of directories it
\* removed, and if no os.rmdir raised no empty directory is left under the
\* root.
C22_PurgeEmptyDirs ==
    /\ dpc \in {"purge", "purged"} =>
          /\ <<>> \in tree.dirs
          /\ tree.files = dhist.tree0.files
          /\ tree.dirs \subseteq dhist.tree0.dirs
    /\ dpc = "purged" =>
          /\ dres = Cardinality(dhist.tree0.dirs \ tree.dirs)
          /\ ~dhist.failed =>
                \A d \in tree.dirs \ {<<>>} : ~ListdirEmpty(tree, d)

\* C22 witness: the root held one chain of nested empty directories and
\* nothing else; the call returned their number and the root is left, empty.
C22_Witness ==
    /\ dpc = "purged"
    /\ dhist.tree0.files = {}
    /\ Cardinality(dhist.tree0.dirs) >= 3
    /\ tree.dirs = {<<>>}
    /\ dres = Cardinality(dhist.tree0.dirs) - 1

\* C23 as claimed: when normalise_top_level_folders has returned, every
\* value of the folder map it was given is a directory directly under the
\* root.
C23_Claimed ==
    dpc = "normalised" =>
        \A n \in 1..Len(dhist.folder_map) :
            <<dhist.folder_map[n].folder>> \in tree.dirs

====
